---- MODULE Spec2Model ----
(***************************************************************************)
(* Model of the data-portal access gate: the dual-mode rate limiter        *)
(* (auth.py RateLimiter) and the x402 payment verification engine          *)
(* (auth.py verify_x402_payment) with the 402 headers the routes quote.    *)
(*                                                                         *)
(* Time is in seconds.  The wall clock (datetime.now, auth.py:170) and the *)
(* monotonic clock (time.monotonic, auth.py:207) advance together and are  *)
(* modelled by the one variable now.                                       *)
(***************************************************************************)
EXTENDS Integers, Sequences, FiniteSets, TLC

\* ------------------------------------------------------------------------
\* Bounds of the model
\* ------------------------------------------------------------------------
NumProcs == 2
MaxCalls == 3
MaxTicks == 2
MaxLimit == 2
MaxSettleCalls == 2
MaxPurchases == 4
MaxVolumeTicks == 2
MaxRouteRequests == 2

\* ------------------------------------------------------------------------
\* Program constants
\* ------------------------------------------------------------------------
SecondsPerDay == 86400
TtlBuffer == 3600
WindowDays == 30

Procs == 1..NumProcs
KeySeq == <<"curated_free:ip1", "reader:ip1">>
Keys == {KeySeq[i] : i \in 1..Len(KeySeq)}
\* Every call site passes a positive literal limit and a window of one hour
\* or one day (agent.py:921,1048,1460, reader.py:256, catalog.py:271).
LimitChoices == 1..MaxLimit
WindowChoices == {3600, 86400}

NoDoc == [exists |-> FALSE, count |-> 0, expire_at |-> 0, created_at |-> 0]
NoKey == "none"

NoLast == [key |-> NoKey, mode |-> "none", allowed |-> FALSE]

VARIABLES
    now,            \* current time in seconds
    max_requests,   \* the limit the call sites pass
    window_seconds, \* the window the call sites pass
    db,             \* RateLimiter._db is set
    docs,           \* Firestore collection rate_limits: doc id -> document
    memory,         \* RateLimiter._memory: key -> list of admission times
    pc,             \* position of each request handler in check_async
    ckey,           \* key argument of the handler's call
    cnow,           \* now captured by _check_firestore
    snap,           \* document snapshot read inside the transaction
    last,           \* the most recent return of check_async: key, mode, value
    numCalls,       \* calls started so far
    served,         \* doc id -> calls decided by the durable store
    admitted,       \* <<mode, doc id>> -> calls admitted
    deniedKeys,     \* keys the in-memory list has denied a call
    keysUsed,       \* how many keys of KeySeq have been passed so far
    test_mode,      \* X402_TEST_MODE
    x402_network,   \* environment variable X402_NETWORK
    cdp_auth,       \* whether and how the settle request is signed
    facilitator_url,\* X402_FACILITATOR_URL
    vwire,          \* target and Authorization header of the latest settle request
    vpc,            \* position of verify_x402_payment: init, posted, returned
    vcall,          \* arguments of the latest call and the facilitator's behaviour
    vreq,           \* the settle request of the latest call
    vres,           \* the result of the latest call
    settleCalls,    \* requests sent to the facilitator so far
    quoted,         \* the latest PAYMENT-REQUIRED header quoted
    vt_db,          \* VolumeTracker._db is set
    genesis,        \* is_genesis_epoch()
    vnow,           \* current time in days
    ledger,         \* Firestore collection agent_volume_tracking: wallet -> document
    rpc,            \* position of each handler in record_purchase
    rwallet,        \* wallet argument of the handler's call
    rpur,           \* records and amount_usd arguments of the handler's call
    rnow,           \* now captured by record_purchase
    rsnap,          \* the document the handler read
    rlast,          \* the most recent return of record_purchase or get_tier
    pruned,         \* wallets whose ledger a write has dropped an event from
    numPurchases,   \* record_purchase calls that went to the store so far
    req,            \* the latest request a handler took
    trail,          \* the steps that handler took, in order
    resp,           \* the response it gave
    quota,          \* limiter key -> admission times, as the handlers' limiter calls left them
    reqRecords,     \* records_30d of the request's X-WALLET when it arrived
    verified,       \* header and amount that handler passed to verify_x402_payment
    txlog,          \* Firestore collection data_portal_transactions
    order,          \* the delivery order's document in delivery_orders
    fpc,            \* position of each handler in fulfill_delivery_order
    fhdr,           \* the payment header of the handler's request
    fsnap,          \* the order as the handler loaded it
    spent,          \* payment proofs the facilitator has settled
    settlements,    \* settlements performed for the order
    fulfilments,    \* background fulfilments started for the order
    bgRunning,      \* background fulfilments that have not finished
    numFulfills,    \* fulfill requests taken so far
    numRequests     \* requests handled so far

limiterVars == <<now, max_requests, window_seconds, db, docs, memory, pc, ckey,
                 cnow, snap, last, numCalls, served, admitted, deniedKeys, keysUsed>>

verifyVars == <<test_mode, x402_network, cdp_auth, facilitator_url, vwire,
                vpc, vcall, vreq, vres, settleCalls, quoted>>

volumeVars == <<vt_db, genesis, vnow, ledger, rpc, rwallet, rpur, rnow, rsnap,
                rlast, pruned, numPurchases>>

deliverVars == <<order, fpc, fhdr, fsnap, spent, settlements, fulfilments,
                 bgRunning, numFulfills>>

routeVars == <<req, trail, resp, quota, reqRecords, verified, txlog, numRequests,
               deliverVars>>

vars == <<limiterVars, verifyVars, volumeVars, routeVars>>

\* ------------------------------------------------------------------------
\* Helpers
\* ------------------------------------------------------------------------
Max2(a, b) == IF a >= b THEN a ELSE b
Min2(a, b) == IF a <= b THEN a ELSE b

\* Lookup with default 0 in a function with a growing domain.
Count(f, x) == IF x \in DOMAIN f THEN f[x] ELSE 0
Bump(f, x) == [y \in (DOMAIN f) \cup {x} |-> IF y = x THEN Count(f, x) + 1 ELSE f[y]]

\* auth.py:172-175  window_key: the UTC calendar date for windows of a day or
\* more, else the epoch bucket index.
WindowKey(t, ws) ==
    IF ws >= SecondsPerDay THEN <<"date", t \div SecondsPerDay>>
    ELSE <<"epoch", t \div ws>>

\* auth.py:177  doc_id = f"{key}:{window_key}"
DocId(key, t, ws) == <<key, WindowKey(t, ws)>>

\* auth.py:182-183  ref.get: the stored document, or a snapshot that does not
\* exist.
GetDoc(id) == IF id \in DOMAIN docs THEN docs[id] ELSE NoDoc

\* update_in_txn setting the expiry one buffer after the creation, the window
\* left out.
UpdateInTxnExpiryNoWindow(doc, t, maxr, ws) ==
    IF doc.exists
    THEN IF doc.count >= maxr
         THEN [allowed |-> FALSE, write |-> FALSE, doc |-> doc]
         ELSE [allowed |-> TRUE, write |-> TRUE,
               doc |-> [doc EXCEPT !.count = doc.count + 1]]
    ELSE [allowed |-> TRUE, write |-> TRUE,
          doc |-> [exists |-> TRUE, count |-> 1,
                   expire_at |-> t + TtlBuffer, created_at |-> t]]

\* update_in_txn counting the call it denies.
UpdateInTxnCountsDenied(doc, t, maxr, ws) ==
    IF doc.exists
    THEN [allowed |-> doc.count < maxr, write |-> TRUE,
          doc |-> [doc EXCEPT !.count = doc.count + 1]]
    ELSE [allowed |-> TRUE, write |-> TRUE,
          doc |-> [exists |-> TRUE, count |-> 1,
                   expire_at |-> t + ws + TtlBuffer, created_at |-> t]]

\* auth.py:181-200  update_in_txn: the decision and the buffered write computed
\* from the snapshot doc.
UpdateInTxn(doc, t, maxr, ws) ==
    IF doc.exists
    THEN IF doc.count >= maxr
         THEN [allowed |-> FALSE, write |-> FALSE, doc |-> doc]
         ELSE [allowed |-> TRUE, write |-> TRUE,
               doc |-> [doc EXCEPT !.count = doc.count + 1]]
    ELSE [allowed |-> TRUE, write |-> TRUE,
          doc |-> [exists |-> TRUE, count |-> 1,
                   expire_at |-> t + ws + TtlBuffer, created_at |-> t]]

RECURSIVE PruneInclusive(_, _)
\* Prune keeping a timestamp that is exactly window_seconds old.
PruneInclusive(ts, cutoff) ==
    IF ts = <<>> THEN <<>>
    ELSE IF Head(ts) >= cutoff THEN <<Head(ts)>> \o PruneInclusive(Tail(ts), cutoff)
         ELSE PruneInclusive(Tail(ts), cutoff)

RECURSIVE Prune(_, _)
\* auth.py:209  [t for t in self._memory[key] if t > cutoff]
Prune(ts, cutoff) ==
    IF ts = <<>> THEN <<>>
    ELSE IF Head(ts) > cutoff THEN <<Head(ts)>> \o Prune(Tail(ts), cutoff)
         ELSE Prune(Tail(ts), cutoff)

\* _check_memory interleaved with another call's: it compares and appends on
\* a list read before the other call appended, and writes that list back.
CheckMemoryStaleList(ts, t, maxr, ws) ==
    LET kept == Prune(ts, t - ws)
        stale == IF kept = <<>> THEN kept ELSE SubSeq(kept, 1, Len(kept) - 1) IN
    IF Len(stale) >= maxr
    THEN [allowed |-> FALSE, list |-> stale]
    ELSE [allowed |-> TRUE, list |-> Append(stale, t)]

\* _check_memory comparing with > instead of >=.
CheckMemoryOffByOne(ts, t, maxr, ws) ==
    LET kept == Prune(ts, t - ws) IN
    IF Len(kept) > maxr
    THEN [allowed |-> FALSE, list |-> kept]
    ELSE [allowed |-> TRUE, list |-> Append(kept, t)]

\* auth.py:205-213  _check_memory: decision and the new list of the key.
CheckMemory(ts, t, maxr, ws) ==
    LET kept == Prune(ts, t - ws) IN
    IF Len(kept) >= maxr
    THEN [allowed |-> FALSE, list |-> kept]
    ELSE [allowed |-> TRUE, list |-> Append(kept, t)]

\* auth.py:219-223  remaining
Remaining(ts, t, maxr, ws) == Max2(0, maxr - Len(Prune(ts, t - ws)))

\* check_async letting the store's exception escape.
OnStoreErrorReraise(ts, t, maxr, ws) ==
    [raised |-> TRUE, allowed |-> FALSE, list |-> ts]

\* auth.py:161-164  except Exception: the warning is logged and control falls
\* through to _check_memory, whose value is returned.
OnStoreError(ts, t, maxr, ws) ==
    LET r == CheckMemory(ts, t, maxr, ws) IN
    [raised |-> FALSE, allowed |-> r.allowed, list |-> r.list]

\* Callers are interchangeable: the keys come into use in the order of KeySeq.
\* KeyIndex(k) is the position of k, which the next call may use if the keys
\* before it are in use.
KeyIndex(k) == CHOOSE i \in 1..Len(KeySeq) : KeySeq[i] = k
NextKey(k) == KeyIndex(k) <= keysUsed + 1

\* ========================================================================
\* x402 payment verification (auth.py verify_x402_payment) and the 402
\* PAYMENT-REQUIRED headers of the routes
\* ========================================================================

\* ---- JSON values and headers ------------------------------------------
\* A payment payload as the header carries it: an object (ver is the value of
\* its x402Version key, 0 when the key is absent), another JSON value, or text
\* that is not JSON.
PayloadV2 == [t |-> "obj", ver |-> 2]
PayloadV1 == [t |-> "obj", ver |-> 1]
PayloadNoVersion == [t |-> "obj", ver |-> 0]
PayloadList == [t |-> "list", ver |-> 0]
NotJson == [t |-> "notjson", ver |-> 0]

\* A header value: the empty string, base64 text of some content, or the
\* content as plain text. A text can be both: b64decode drops the characters
\* outside its alphabet and stops at the padding, so the JSON text
\* {"eyJ4NDAyVmVyc2lvbiI6Mn0=": 1} is also base64 of {"x402Version":2}; such
\* a header has wire "both", its content is what the base64 reading gives and
\* its reading as plain JSON is an object without x402Version.
EmptyHeader == [wire |-> "empty", content |-> NotJson]
Headers ==
    {EmptyHeader}
        \cup [wire : {"b64"}, content : {PayloadV2, PayloadList, NotJson}]
        \cup [wire : {"raw"}, content : {PayloadV1, PayloadNoVersion, NotJson}]
        \cup [wire : {"both"}, content : {PayloadV2}]

\* A required amount is a count of 1/AmountScale USDC units (a USDC unit is a
\* millionth of a USD), so amount * 1_000_000 is amount / AmountScale units:
\* 0.05 USD (the reader price) and two amounts that fall between two units.
AmountScale == 10
Amounts == {500000, 15, 25}

Networks == {"eip155:8453", "eip155:84532", "eip155:1"}
BaseWalletAddress == "0xFE141943a93c184606F3060103D975662327063B"
MaxTimeoutSeconds == 300
ErrorTextLimit == 200

\* Facilitator response bodies.
Body(t, s, success, hasError, error, tx) ==
    [t |-> t, s |-> s, success |-> success, hasError |-> hasError,
     error |-> error, tx |-> tx]
BodyString == Body("str", "0xABCDEF", "absent", FALSE, "", "absent")
BodyList == Body("list", "", "absent", FALSE, "", "absent")
BodyNotJson == Body("notjson", "", "absent", FALSE, "", "absent")
BodyObjects ==
    {Body("obj", "", "true", FALSE, "", tx) :
        tx \in {"absent", "transaction_str", "transaction_dict", "txHash"}}
        \cup {Body("obj", "", "false", FALSE, "", "absent"),
              Body("obj", "", "false", TRUE, "insufficient funds", "absent"),
              Body("obj", "", "false", TRUE, "insufficient funds", "transaction_str"),
              Body("obj", "", "false", TRUE, "", "absent"),
              Body("obj", "", "absent", FALSE, "", "transaction_str")}
Bodies == {BodyString, BodyList, BodyNotJson} \cup BodyObjects

\* What the facilitator does with a settle request.
NoFac == [kind |-> "none", status |-> 0, body |-> BodyNotJson]
Facilitator ==
    {[kind |-> "timeout", status |-> 0, body |-> BodyNotJson],
     [kind |-> "connect_error", status |-> 0, body |-> BodyNotJson]}
        \cup [kind : {"response"}, status : {200}, body : Bodies]
        \cup [kind : {"response"}, status : {402, 500},
              body : {BodyNotJson, Body("obj", "", "false", TRUE, "insufficient funds", "absent")}]

\* ---- strings -----------------------------------------------------------
\* A string is a sequence of pieces; the empty string is the empty sequence.
Str(s) == IF s = "" THEN <<>> ELSE <<s>>

RECURSIVE Digits(_)
\* str(n) for an integer n >= 0
Digits(n) == IF n < 10 THEN <<n>> ELSE Append(Digits(n \div 10), n % 10)

\* resp.text of a response body and the name of its JSON type
BodyText(b) == IF b.t = "str" THEN <<b.s>> ELSE <<"text of ", b.t, " body">>
StatusText(st) == IF st = 200 THEN "200" ELSE IF st = 402 THEN "402" ELSE "500"

\* auth.py:401  resp.text[:200]
Truncate(text, n) == SubSeq(text, 1, Min2(Len(text), n))

\* ---- amounts and requirements -----------------------------------------
\* round(): to the nearest integer, ties to the even one; num/den >= 0.
RoundHalfEven(num, den) ==
    LET q == num \div den
        r == num % den IN
    IF 2 * r > den \/ (2 * r = den /\ q % 2 = 1) THEN q + 1 ELSE q

\* auth.py:357, agent.py:315, reader.py:139
\* str(int(round(amount * 1_000_000)))
AmountSmallest(amount) == Digits(RoundHalfEven(amount, AmountScale))

\* auth.py:325-329  USDC_ADDRESSES.get(x402_network, mainnet)
AuthUsdcAsset(net) ==
    IF net = "eip155:84532" THEN "0x036CbD53842c5426634e7929541eC2318f3dCF7e"
    ELSE "0x833589fCD6eDb6E08f4c7C32D4f71b54bdA02913"

\* auth.py:332-336  USDC_EIP712_DOMAINS.get(x402_network, mainnet)
AuthUsdcDomain(net) ==
    IF net = "eip155:84532" THEN [name |-> "USDC", version |-> "2"]
    ELSE [name |-> "USD Coin", version |-> "2"]

\* agent.py:294-299  USDC_ADDRESS
AgentUsdcAddress(net) ==
    IF net = "eip155:84532" THEN "0x036CbD53842c5426634e7929541eC2318f3dCF7e"
    ELSE "0x833589fCD6eDb6E08f4c7C32D4f71b54bdA02913"

\* agent.py:302-306  USDC_EIP712_DOMAIN
AgentUsdcDomain(net) ==
    IF net = "eip155:84532" THEN [name |-> "USDC", version |-> "2"]
    ELSE [name |-> "USD Coin", version |-> "2"]

\* reader.py:131-134, 145  usdc_addresses.get(x402_network, mainnet)
ReaderUsdcAddress(net) ==
    IF net = "eip155:84532" THEN "0x036CbD53842c5426634e7929541eC2318f3dCF7e"
    ELSE "0x833589fCD6eDb6E08f4c7C32D4f71b54bdA02913"

\* reader.py:135-138, 149  eip712_domains.get(x402_network, mainnet)
ReaderUsdcDomain(net) ==
    IF net = "eip155:84532" THEN [name |-> "USDC", version |-> "2"]
    ELSE [name |-> "USD Coin", version |-> "2"]

\* The requirements with the amount cut off instead of rounded.
RequirementsTruncated(amount, net) ==
    [scheme |-> "exact", network |-> net, asset |-> AuthUsdcAsset(net),
     amount |-> Digits(amount \div AmountScale),
     payTo |-> BaseWalletAddress, maxTimeoutSeconds |-> MaxTimeoutSeconds,
     extra |-> AuthUsdcDomain(net)]

\* auth.py:356-366  requirements
Requirements(amount, net) ==
    [scheme |-> "exact", network |-> net, asset |-> AuthUsdcAsset(net),
     amount |-> AmountSmallest(amount),
     payTo |-> BaseWalletAddress, maxTimeoutSeconds |-> MaxTimeoutSeconds,
     extra |-> AuthUsdcDomain(net)]

\* agent.py:309-335  _encode_x402_header: base64 of the JSON payload
EncodeX402Header(amount, net) ==
    [wire |-> "b64",
     content |-> [x402Version |-> 2,
                  accepts |-> <<[scheme |-> "exact", network |-> net,
                                 asset |-> AgentUsdcAddress(net),
                                 amount |-> AmountSmallest(amount),
                                 payTo |-> BaseWalletAddress,
                                 maxTimeoutSeconds |-> MaxTimeoutSeconds,
                                 extra |-> AgentUsdcDomain(net)]>>]]

\* reader.py:127-153  _reader_x402_headers: the PAYMENT-REQUIRED header
ReaderX402Header(amount, net) ==
    [wire |-> "b64",
     content |-> [x402Version |-> 2,
                  accepts |-> <<[scheme |-> "exact", network |-> net,
                                 asset |-> ReaderUsdcAddress(net),
                                 amount |-> AmountSmallest(amount),
                                 payTo |-> BaseWalletAddress,
                                 maxTimeoutSeconds |-> MaxTimeoutSeconds,
                                 extra |-> ReaderUsdcDomain(net)]>>]]

\* ---- results -----------------------------------------------------------
\* auth.py:282-289  X402PaymentResult; raised marks an exception that left
\* verify_x402_payment instead of a result.
Result(valid, amount, tx, error) ==
    [raised |-> FALSE, valid |-> valid, amount_usd |-> amount, tx_hash |-> tx,
     error |-> error]
Failed(error) == Result(FALSE, 0, "", error)
Raised(exc) == [raised |-> TRUE, valid |-> FALSE, amount_usd |-> 0, tx_hash |-> "",
                error |-> <<exc>>]
NoResult == Failed(<<>>)

\* The except clauses without the one for the timeout.
ExceptWithoutTimeoutClause(exc) == Failed(<<"Verification error: ", exc>>)

\* An except clause that handles the timeout only.
ExceptTimeoutOnly(exc) ==
    IF exc = "TimeoutException" THEN Failed(<<"x402 facilitator timeout">>)
    ELSE Raised(exc)

\* auth.py:430-434  except httpx.TimeoutException / except Exception
Except(exc) ==
    IF exc = "TimeoutException" THEN Failed(<<"x402 facilitator timeout">>)
    ELSE Failed(<<"Verification error: ", exc>>)

\* A header check that lets the empty header through.
IsMissingNever(h) == FALSE

\* auth.py:311  if not payment_header
IsMissing(h) == h.wire = "empty"

\* The plain-JSON reading of a header.
RawReading(h) == IF h.wire = "both" THEN PayloadNoVersion ELSE h.content

\* The decoding with raw JSON tried before base64.
DecodeHeaderRawFirst(h) ==
    IF h.wire \in {"raw", "both"} /\ RawReading(h).t # "notjson"
    THEN [ok |-> TRUE, payload |-> RawReading(h)]
    ELSE IF h.wire = "b64" /\ h.content.t # "notjson"
         THEN [ok |-> TRUE, payload |-> h.content]
         ELSE [ok |-> FALSE, payload |-> NotJson]

\* auth.py:344-352  base64 then JSON, else raw JSON, else undecodable.
\* b64decode of plain JSON text raises or yields bytes that are not JSON,
\* unless the text is of both kinds.
DecodeHeader(h) ==
    IF h.wire \in {"b64", "both"} /\ h.content.t # "notjson"
    THEN [ok |-> TRUE, payload |-> h.content]
    ELSE IF h.wire \in {"raw", "both"} /\ RawReading(h).t # "notjson"
         THEN [ok |-> TRUE, payload |-> RawReading(h)]
         ELSE [ok |-> FALSE, payload |-> NotJson]

\* auth.py:354  payment_payload.get("x402Version", 1)
PayloadVersion(payload) == IF payload.ver = 0 THEN 1 ELSE payload.ver

NoRequest == [sent |-> FALSE, auth |-> FALSE, x402Version |-> 0,
              paymentPayload |-> NotJson,
              paymentRequirements |-> Requirements(0, "eip155:8453")]

\* verify_x402_payment looking at test mode only after it decoded the header.
BeforePostTestModeAfterDecode(h, amount, testMode, net, auth) ==
    IF IsMissing(h)
    THEN [kind |-> "return", result |-> Failed(<<"Missing payment header">>),
          request |-> NoRequest]
    ELSE LET d == DecodeHeader(h) IN
    IF ~d.ok
    THEN [kind |-> "return", result |-> Failed(<<"Cannot decode payment header">>),
          request |-> NoRequest]
    ELSE IF testMode
    THEN [kind |-> "return", result |-> Result(TRUE, amount, "test-mode-no-tx", <<>>),
          request |-> NoRequest]
    ELSE IF d.payload.t # "obj"
    THEN [kind |-> "return", result |-> Except("AttributeError"), request |-> NoRequest]
    ELSE IF auth = "badkey"
    THEN [kind |-> "return", result |-> Except("ValueError"), request |-> NoRequest]
    ELSE [kind |-> "post", result |-> NoResult,
          request |-> [sent |-> TRUE, auth |-> (auth = "on"),
                       x402Version |-> PayloadVersion(d.payload),
                       paymentPayload |-> d.payload,
                       paymentRequirements |-> Requirements(amount, net)]]

\* auth.py:311-395  verify_x402_payment up to the POST: either a result
\* (kind "return") or the settle request that is sent (kind "post").
BeforePost(h, amount, testMode, net, auth) ==
    IF IsMissing(h)
    THEN [kind |-> "return", result |-> Failed(<<"Missing payment header">>),
          request |-> NoRequest]
    ELSE IF testMode
    THEN [kind |-> "return", result |-> Result(TRUE, amount, "test-mode-no-tx", <<>>),
          request |-> NoRequest]
    ELSE LET d == DecodeHeader(h) IN
    IF ~d.ok
    THEN [kind |-> "return", result |-> Failed(<<"Cannot decode payment header">>),
          request |-> NoRequest]
    ELSE IF d.payload.t # "obj"
    THEN [kind |-> "return", result |-> Except("AttributeError"), request |-> NoRequest]
    ELSE IF auth = "badkey"
    THEN [kind |-> "return", result |-> Except("ValueError"), request |-> NoRequest]
    ELSE [kind |-> "post", result |-> NoResult,
          request |-> [sent |-> TRUE, auth |-> (auth = "on"),
                       x402Version |-> PayloadVersion(d.payload),
                       paymentPayload |-> d.payload,
                       paymentRequirements |-> Requirements(amount, net)]]

\* raw.get("error", ...) replaced by the fixed message.
SettlementErrorFixed(body) == <<"Settlement failed">>

\* auth.py:421  raw.get("error", "Settlement failed")
SettlementError(body) == IF body.hasError THEN Str(body.error) ELSE <<"Settlement failed">>

\* auth.py:417-418  the transaction reference of an object body
TxHash(body) ==
    IF body.tx = "transaction_str" THEN "0xT1"
    ELSE IF body.tx = "transaction_dict" THEN "0xT2"
    ELSE IF body.tx = "txHash" THEN "0xT3"
    ELSE ""

\* A success flag that counts as set when the key is absent.
SuccessDefaultTrue(body) == body.success # "false"

\* auth.py:415  raw.get("success", False)
Success(body) == body.success = "true"

\* A bare string taken as success without its value as the reference.
StringResultNoReference(s, amount) == Result(TRUE, amount, "", <<>>)

\* auth.py:408-410  a bare string is the transaction hash of a settlement
StringResult(s, amount) == Result(TRUE, amount, s, <<>>)

\* auth.py:397-428  the interpretation of the facilitator's answer
AfterPost(fac, amount) ==
    IF fac.kind = "timeout" THEN Except("TimeoutException")
    ELSE IF fac.kind = "connect_error" THEN Except("ConnectError")
    ELSE IF fac.status # 200
    THEN Failed(<<"Facilitator settle failed (", StatusText(fac.status), "): ">>
                    \o Truncate(BodyText(fac.body), ErrorTextLimit))
    ELSE IF fac.body.t = "notjson" THEN Except("JSONDecodeError")
    ELSE IF fac.body.t = "str" THEN StringResult(fac.body.s, amount)
    ELSE IF fac.body.t # "obj"
    THEN Failed(<<"Unexpected facilitator response type: ", fac.body.t>>)
    ELSE IF ~Success(fac.body) THEN Failed(SettlementError(fac.body))
    ELSE Result(TRUE, amount, TxHash(fac.body), <<>>)

\* ---- the settle request on the wire ------------------------------------
\* Texts are sequences of pieces; "cdp.coinbase.com" is always one piece.
\* auth.py:26-29  the default X402_FACILITATOR_URL
CdpUrl == [host |-> <<"api.", "cdp.coinbase.com">>,
           path |-> <<"/platform", "/v2", "/x402">>]

\* The same address written with a trailing slash.
CdpUrlSlash == [host |-> <<"api.", "cdp.coinbase.com">>,
                path |-> <<"/platform", "/v2", "/x402", "/">>]

\* A relay in front of the facilitator whose path names it.
RelayUrl == [host |-> <<"relay.example.com">>,
             path |-> <<"/", "cdp.coinbase.com", "/x402">>]

\* main.py:38-40  the community facilitator
X402OrgUrl == [host |-> <<"www.x402.org">>, path |-> <<"/facilitator">>]

FacilitatorUrls == {CdpUrl, CdpUrlSlash, RelayUrl, X402OrgUrl}

\* coinbase_jwt.py:38  f"{request_method} {request_host}{request_path}"
UriText(method, host, path) == <<method, " ">> \o host \o path

\* coinbase_jwt.py:37-47  the claims of the assertion
BuildCdpJwt(request_host, request_path, request_method) ==
    [iss |-> "cdp", uris |-> <<UriText(request_method, request_host, request_path)>>]

\* auth.py:378  "cdp.coinbase.com" in X402_FACILITATOR_URL
NamesCdp(url) ==
    \E i \in 1..Len(url.host \o url.path) : (url.host \o url.path)[i] = "cdp.coinbase.com"

\* auth.py:378-389  how the request is signed: not at all unless the address
\* names the CDP facilitator and both credentials are set.
SigningFor(url, auth) == IF NamesCdp(url) THEN auth ELSE "off"

NoWire == [method |-> "", host |-> <<>>, path |-> <<>>,
           authorization |-> [iss |-> "", uris |-> <<>>]]

\* auth.py:375-395  the request line and the Authorization header of the POST
\* to f"{X402_FACILITATOR_URL}/settle".
SettleWire(url, signed) ==
    [method |-> "POST", host |-> url.host, path |-> url.path \o <<"/settle">>,
     authorization |->
         IF signed
         THEN BuildCdpJwt(<<"api.", "cdp.coinbase.com">>,
                          <<"/platform", "/v2", "/x402", "/settle">>, "POST")
         ELSE NoWire.authorization]

\* ---- state -------------------------------------------------------------
NoCall == [header |-> EmptyHeader, amount |-> 0, fac |-> NoFac]
NoQuote == [via |-> "none", amount |-> 0, header |-> EncodeX402Header(0, "eip155:8453")]
AuthChoices == {"off", "on", "nomodule", "badkey"}

\* The verification engine before any call, with the default configuration
\* (auth.py:27-36).
VerifyIdle ==
    /\ test_mode = FALSE
    /\ x402_network = "eip155:8453"
    /\ cdp_auth = "off"
    /\ facilitator_url = CdpUrl
    /\ vwire = NoWire
    /\ vpc = "init"
    /\ vcall = NoCall
    /\ vreq = NoRequest
    /\ vres = NoResult
    /\ settleCalls = 0
    /\ quoted = NoQuote

\* auth.py:27-36, 324  the configuration read from the environment: test mode,
\* the network, and whether the settle request is signed (off: no CDP
\* facilitator or no credentials; on: signed; nomodule: coinbase_jwt cannot be
\* imported; badkey: signing raises).
InitVerify ==
    /\ test_mode \in BOOLEAN
    /\ x402_network \in Networks
    /\ cdp_auth \in AuthChoices
    /\ facilitator_url = CdpUrl
    /\ vwire = NoWire
    /\ vpc = "init"
    /\ vcall = NoCall
    /\ vreq = NoRequest
    /\ vres = NoResult
    /\ settleCalls = 0
    /\ quoted = NoQuote

\* The limiter before any call, under fixed limits.
LimiterIdle ==
    /\ now = 0
    /\ max_requests = 1
    /\ window_seconds = 3600
    /\ db = FALSE
    /\ docs = <<>>
    /\ memory = [k \in Keys |-> <<>>]
    /\ pc = [p \in Procs |-> "idle"]
    /\ ckey = [p \in Procs |-> NoKey]
    /\ cnow = [p \in Procs |-> 0]
    /\ snap = [p \in Procs |-> NoDoc]
    /\ last = NoLast
    /\ numCalls = 0
    /\ served = <<>>
    /\ admitted = <<>>
    /\ deniedKeys = {}
    /\ keysUsed = 0

\* ========================================================================
\* Volume ledger (volume_tracker.py VolumeTracker, pricing.py
\* get_volume_price)
\* ========================================================================

\* Wallet addresses (a document is read and written under its own wallet
\* only, so one address stands for all); the empty string is the absent wallet.
Wallets == {"0xA"}
WalletInputs == Wallets \cup {""}

\* Money is counted in 1/10000 USD. Purchases: 40 records for 0.125 USD,
\* 500 and 2000 records for 100 USD.
PurchaseInputs ==
    {[records |-> 40, amount_usd |-> 1250],
     [records |-> 500, amount_usd |-> 1000000],
     [records |-> 2000, amount_usd |-> 1000000]}

\* pricing.py:26-34  is_genesis_epoch(): 8/10 of the price for 90 days
GenesisDiscountTenths == 8

\* pricing.py:289-294  VOLUME_TIERS
VolumeTiers ==
    <<[min |-> 2000, per_record |-> 1000, discount |-> "50%", label |-> "Loyalty floor"],
      [min |-> 500, per_record |-> 1250, discount |-> "37%", label |-> "Volume"],
      [min |-> 100, per_record |-> 1500, discount |-> "25%", label |-> "Batch"],
      [min |-> 0, per_record |-> 2000, discount |-> "0%", label |-> "Standard"]>>

\* pricing.py:296  ENTERPRISE_OUTREACH_THRESHOLD_USD
EnterpriseOutreachThresholdUsd == 2000000

\* round(x, 4) of a price x given in 1/100000 USD
Round4(x) == RoundHalfEven(x, 10)

\* round(x, 2) of an amount x given in 1/10000 USD
Round2(x) == RoundHalfEven(x, 100) * 100

\* The dict get_volume_price returns, with the two keys record_purchase adds
\* (has_spend: they are present).
TierInfo(tier, n, gen) ==
    [per_record |-> IF gen THEN Round4(tier.per_record * GenesisDiscountTenths)
                    ELSE tier.per_record,
     discount |-> tier.discount, label |-> tier.label, cumulative_records |-> n,
     has_spend |-> FALSE, spend_30d |-> 0, enterprise_outreach |-> FALSE]

\* A tier lookup that takes the last threshold met instead of the first.
GetVolumePriceLastMatch(n, gen) ==
    LET hits == {i \in 1..Len(VolumeTiers) : n >= VolumeTiers[i].min}
        i == CHOOSE j \in hits : \A k \in hits : j >= k IN
    TierInfo(VolumeTiers[i], n, gen)

\* pricing.py:299-322  get_volume_price: the first tier whose min is met
GetVolumePrice(n, gen) ==
    LET hits == {i \in 1..Len(VolumeTiers) : n >= VolumeTiers[i].min} IN
    IF hits = {}
    THEN [per_record |-> 2000, discount |-> "0%", label |-> "Standard",
          cumulative_records |-> 0, has_spend |-> FALSE, spend_30d |-> 0,
          enterprise_outreach |-> FALSE]
    ELSE LET i == CHOOSE j \in hits : \A k \in hits : j <= k IN
         TierInfo(VolumeTiers[i], n, gen)

\* A ledger document (first_seen, last_updated and the endpoint label of an
\* event are left out: nothing reads them).
NoLedger == [exists |-> FALSE, events |-> <<>>, records_30d |-> 0, spend_30d |-> 0]

RECURSIVE SumRecords(_)
\* volume_tracker.py:77  sum(e.get("records", 0) for e in events)
SumRecords(events) ==
    IF events = <<>> THEN 0 ELSE Head(events).records + SumRecords(Tail(events))

RECURSIVE SumSpend(_)
\* volume_tracker.py:78  sum(e.get("amount_usd", 0) for e in events)
SumSpend(events) ==
    IF events = <<>> THEN 0 ELSE Head(events).amount_usd + SumSpend(Tail(events))

\* An event list that is never pruned.
PruneEventsNever(events, t) == events

\* volume_tracker.py:58, 66-69  events with timestamp > now - 30 days
PruneEvents(events, t) ==
    SelectSeq(events, LAMBDA e : e.timestamp > t - WindowDays)

\* volume_tracker.py:63-103  the document record_purchase writes over the
\* snapshot it read, and the sums it goes on with
PurchaseWrite(snapDoc, t, pur) ==
    LET ev == [timestamp |-> t, records |-> pur.records, amount_usd |-> pur.amount_usd] IN
    IF snapDoc.exists
    THEN LET events == Append(PruneEvents(snapDoc.events, t), ev) IN
         [doc |-> [exists |-> TRUE, events |-> events,
                   records_30d |-> SumRecords(events),
                   spend_30d |-> Round2(SumSpend(events))],
          total_records |-> SumRecords(events), total_spend |-> SumSpend(events)]
    ELSE [doc |-> [exists |-> TRUE, events |-> <<ev>>, records_30d |-> pur.records,
                   spend_30d |-> Round2(pur.amount_usd)],
          total_records |-> pur.records, total_spend |-> pur.amount_usd]

\* volume_tracker.py:105-117  tier_info
PurchaseTier(total_records, total_spend, gen) ==
    [GetVolumePrice(total_records, gen) EXCEPT
        !.has_spend = TRUE,
        !.spend_30d = Round2(total_spend),
        !.enterprise_outreach = (total_spend >= EnterpriseOutreachThresholdUsd)]

\* What a call of the ledger gave back: the tier, or an exception.
LedgerReturn(op, w, cause, tier) ==
    [op |-> op, wallet |-> w, cause |-> cause, raised |-> FALSE, tier |-> tier]
NoLedgerReturn == LedgerReturn("none", "", "none", GetVolumePrice(0, FALSE))

\* A storage error that leaves the call as an exception.
OnLedgerErrorReraise(op, w, gen) ==
    [op |-> op, wallet |-> w, cause |-> "error", raised |-> TRUE,
     tier |-> GetVolumePrice(0, gen)]

\* volume_tracker.py:119-121, 133-136  except Exception: the standard tier
OnLedgerError(op, w, gen) == LedgerReturn(op, w, "error", GetVolumePrice(0, gen))

NoPurchase == [records |-> 0, amount_usd |-> 0]

\* The ledger before any call, outside the Genesis Epoch.
VolumeIdle ==
    /\ vt_db = FALSE
    /\ genesis = FALSE
    /\ vnow = 0
    /\ ledger = [w \in Wallets |-> NoLedger]
    /\ rpc = [p \in Procs |-> "idle"]
    /\ rwallet = [p \in Procs |-> ""]
    /\ rpur = [p \in Procs |-> NoPurchase]
    /\ rnow = [p \in Procs |-> 0]
    /\ rsnap = [p \in Procs |-> NoLedger]
    /\ rlast = NoLedgerReturn
    /\ pruned = {}
    /\ numPurchases = 0

\* ========================================================================
\* Request handlers (routes/agent.py, routes/reader.py, routes/catalog.py)
\* ========================================================================

\* What a request asks for: an artifact that exists, one that does not, or an
\* identifier of the wrong format.
Targets == {"exists", "missing", "invalid"}
ClientIp == "ip1"
WalletHeaders == {"", "0xA", "0xB"}

\* The two headers a payment proof can come in.
Proofs == [payment_signature : {"", "sigproof"}, x_payment : {"", "xproof"}]
NoProof == [payment_signature |-> "", x_payment |-> ""]

\* request.headers.get("PAYMENT-SIGNATURE", "") or request.headers.get("X-PAYMENT", "")
ProofHeader(proof) ==
    IF proof.payment_signature # "" THEN proof.payment_signature ELSE proof.x_payment

\* auth.py:230-250  get_client_fingerprint: ip, or ip|wallet when the request
\* carries X-Wallet-Address
GetClientFingerprint(ip, wallet) ==
    IF wallet # "" THEN <<ip, "|", wallet>> ELSE <<ip>>

\* agent.py:261-263  _current_hybrid_premium_price, in 1/10000 USD
CurrentHybridPremiumPrice(gen) ==
    IF gen THEN Round2((2000 * GenesisDiscountTenths) \div 10) ELSE 2000

\* agent.py:265-267  _current_human_standard_price, in 1/10000 USD
CurrentHumanStandardPrice(gen) ==
    IF gen THEN Round2((500 * GenesisDiscountTenths) \div 10) ELSE 500

\* reader.py:39  READER_PRICE, in 1/10000 USD
ReaderPrice == 500

\* The request a handler got, with what its collaborators answered: buyer is
\* the answer of _check_buyer_history, settled the valid field of the result
\* of verify_x402_payment.
Request(endpoint, target, wallet_address, x_wallet, proof, buyer, settled) ==
    [endpoint |-> endpoint, target |-> target, wallet_address |-> wallet_address,
     x_wallet |-> x_wallet, proof |-> proof, buyer |-> buyer, settled |-> settled]
NoRouteRequest == Request("none", "exists", "", "", NoProof, FALSE, FALSE)

\* An HTTP response: retry_after and price are 0 when the header is absent;
\* payment_required tells whether the PAYMENT-REQUIRED header is there.
Response(status, retry_after, price) ==
    [status |-> status, retry_after |-> retry_after, price |-> price,
     payment_required |-> (status = 402)]
NoResponse == Response(0, 0, 0)

\* The arguments of a handler's call of verify_x402_payment; these when it
\* made no call.
NotVerified == [header |-> "", amount |-> 0]

\* What a handler did: the steps it took in order, its response, the limiter
\* key it had admitted (or <<>>), and the purchase it recorded (or 0); what it
\* passed to verify_x402_payment and the amount it logged are added by the
\* payment part.
Outcome(steps, response, admitKey, recordPrice) ==
    [steps |-> steps, resp |-> response, admitKey |-> admitKey, recordPrice |-> recordPrice,
     verified |-> NotVerified, logPrice |-> 0]

\* The admission times the limiter holds for a key.
QuotaList(q, key) == IF key \in DOMAIN q THEN q[key] ELSE <<>>

\* auth.py:153-164, 205-213  rate_limiter.check_async(key, maxr, ws) decided on
\* the key's in-memory list
LimiterCheck(q, key, maxr, ws) == CheckMemory(QuotaList(q, key), 0, maxr, ws)

\* A payment part that asks for a proof and goes on whatever the verification
\* said.
PaymentThenNoCheck(steps, proofHeader, settled, price, rest) ==
    IF proofHeader = ""
    THEN Outcome(Append(steps, "proof"), Response(402, 0, price), <<>>, 0)
    ELSE [rest EXCEPT !.steps = steps \o <<"proof", "verify">> \o rest.steps,
                      !.verified = [header |-> proofHeader, amount |-> price]]

\* agent.py:1055-1069, 1317-1335, reader.py:262-299  the payment part of a
\* handler: 402 without a proof, verify_x402_payment with one, 402 when it is
\* not valid; then the rest of the handler.
PaymentThen(steps, proofHeader, settled, price, rest) ==
    IF proofHeader = ""
    THEN Outcome(Append(steps, "proof"), Response(402, 0, price), <<>>, 0)
    ELSE IF ~settled
    THEN [Outcome(steps \o <<"proof", "verify">>, Response(402, 0, price), <<>>, 0)
             EXCEPT !.verified = [header |-> proofHeader, amount |-> price]]
    ELSE [rest EXCEPT !.steps = steps \o <<"proof", "verify">> \o rest.steps,
                      !.verified = [header |-> proofHeader, amount |-> price]]

\* _require_payment going on after a verification that was not valid.
RequirePaymentNoRaise(steps, x_payment, settled, price, rest) ==
    [rest EXCEPT !.steps = steps \o <<"proof", "verify">> \o rest.steps,
                 !.verified = [header |-> x_payment, amount |-> price]]

\* agent.py:391-404  _require_payment(x_payment, amount, description): the
\* X-PAYMENT header (or "") goes to verify_x402_payment; 402 unless valid.
RequirePayment(steps, x_payment, settled, price, rest) ==
    IF ~settled
    THEN [Outcome(steps \o <<"proof", "verify">>, Response(402, 0, price), <<>>, 0)
             EXCEPT !.verified = [header |-> x_payment, amount |-> price]]
    ELSE [rest EXCEPT !.steps = steps \o <<"proof", "verify">> \o rest.steps,
                      !.verified = [header |-> x_payment, amount |-> price]]

\* agent.py:977-1106  get_curated_artifact
CuratedArtifact(r, q, maxr, gen) ==
    IF r.target # "exists" THEN Outcome(<<"exists">>, Response(404, 0, 0), <<>>, 0)
    ELSE LET key == <<"curated_free:">> \o GetClientFingerprint(ClientIp, r.wallet_address)
             c == LimiterCheck(q, key, maxr, SecondsPerDay)
             serve == Outcome(<<"serve">>, Response(200, 0, 0), <<>>, 0) IN
         IF c.allowed
         THEN Outcome(<<"exists", "limiter", "serve">>, Response(200, 0, 0), key, 0)
         ELSE PaymentThen(<<"exists", "limiter">>, ProofHeader(r.proof), r.settled,
                          CurrentHumanStandardPrice(gen), serve)

\* agent.py:1221-1418  get_oracle_artifact for an artifact outside the Genesis
\* Ten
OracleArtifact(r, gen) ==
    IF r.target # "exists" THEN Outcome(<<"exists">>, Response(404, 0, 0), <<>>, 0)
    ELSE LET price == CurrentHybridPremiumPrice(gen)
             serve == IF r.x_wallet # ""
                      THEN [Outcome(<<"record", "log", "serve">>, Response(200, 0, price),
                                    <<>>, price) EXCEPT !.logPrice = price]
                      ELSE [Outcome(<<"log", "serve">>, Response(200, 0, price), <<>>, 0)
                               EXCEPT !.logPrice = price] IN
         PaymentThen(<<"exists">>, ProofHeader(r.proof), r.settled, price, serve)

\* reader.py:305-330  the rest of read_artifact: the identifier's format, then
\* the image in the bucket
ReaderRest(r) ==
    IF r.target = "invalid" THEN Outcome(<<"exists">>, Response(400, 0, 0), <<>>, 0)
    ELSE IF r.target = "missing" THEN Outcome(<<"exists">>, Response(404, 0, 0), <<>>, 0)
    ELSE Outcome(<<"exists", "serve">>, Response(200, 0, 0), <<>>, 0)

\* reader.py:234-330  read_artifact
ReadArtifact(r, q, maxr) ==
    LET key == <<"reader:">> \o GetClientFingerprint(ClientIp, r.wallet_address)
        c == LimiterCheck(q, key, maxr, SecondsPerDay)
        rest == ReaderRest(r) IN
    IF r.buyer THEN rest
    ELSE IF c.allowed
    THEN [rest EXCEPT !.steps = <<"limiter">> \o rest.steps, !.admitKey = key]
    ELSE PaymentThen(<<"limiter">>, ProofHeader(r.proof), r.settled, ReaderPrice, rest)

\* agent.py:908-923  search_artifacts up to the limiter's verdict
SearchArtifacts(r, q, maxr) ==
    LET key == <<"search:">> \o GetClientFingerprint(ClientIp, r.wallet_address)
        c == LimiterCheck(q, key, maxr, 3600) IN
    IF ~c.allowed THEN Outcome(<<"limiter">>, Response(429, 0, 0), <<>>, 0)
    ELSE Outcome(<<"limiter", "serve">>, Response(200, 0, 0), key, 0)

\* agent.py:1443-1502  get_artifact_image
ArtifactImage(r, q, maxr) ==
    LET key == <<"image_proxy:">> \o GetClientFingerprint(ClientIp, r.wallet_address)
        c == LimiterCheck(q, key, maxr, SecondsPerDay) IN
    IF ~c.allowed THEN Outcome(<<"limiter">>, Response(429, 0, 0), <<>>, 0)
    ELSE IF r.target # "exists"
    THEN Outcome(<<"limiter", "exists">>, Response(404, 0, 0), key, 0)
    ELSE Outcome(<<"limiter", "exists", "serve">>, Response(200, 0, 0), key, 0)

\* auth.py:267-272  the 429 of require_rate_limit
RateLimited(ws) == Response(429, ws, 0)

\* auth.py:253-274, catalog.py:269-292  preview_dataset behind
\* require_rate_limit("preview", maxr, 86400)
PreviewDataset(r, q, maxr) ==
    LET key == <<"preview:", ClientIp>>
        c == LimiterCheck(q, key, maxr, SecondsPerDay) IN
    IF ~c.allowed THEN Outcome(<<"limiter">>, RateLimited(SecondsPerDay), <<>>, 0)
    ELSE IF r.target # "exists"
    THEN Outcome(<<"limiter", "exists">>, Response(404, 0, 0), key, 0)
    ELSE Outcome(<<"limiter", "exists", "serve">>, Response(200, 0, 0), key, 0)

\* deliver.py:202  an order as create_delivery_order stored it
NewOrder == [status |-> "awaiting_payment"]

\* One delivery order, created and not yet requested to be fulfilled.
DeliverIdle ==
    /\ order = NewOrder
    /\ fpc = [p \in Procs |-> "idle"]
    /\ fhdr = [p \in Procs |-> ""]
    /\ fsnap = [p \in Procs |-> NewOrder]
    /\ spent = {}
    /\ settlements = 0
    /\ fulfilments = 0
    /\ bgRunning = 0
    /\ numFulfills = 0

\* The handlers before any request.
RoutesIdle ==
    /\ req = NoRouteRequest
    /\ trail = <<>>
    /\ resp = NoResponse
    /\ quota = <<>>
    /\ reqRecords = 0
    /\ verified = NotVerified
    /\ txlog = <<>>
    /\ DeliverIdle
    /\ numRequests = 0

\* ------------------------------------------------------------------------
\* Initial state
\* ------------------------------------------------------------------------
InitLimiter ==
    /\ now = 0
    /\ max_requests \in LimitChoices
    /\ window_seconds \in WindowChoices
    /\ db = FALSE
    /\ docs = <<>>
    /\ memory = [k \in Keys |-> <<>>]
    /\ pc = [p \in Procs |-> "idle"]
    /\ ckey = [p \in Procs |-> NoKey]
    /\ cnow = [p \in Procs |-> 0]
    /\ snap = [p \in Procs |-> NoDoc]
    /\ last = NoLast
    /\ numCalls = 0
    /\ served = <<>>
    /\ admitted = <<>>
    /\ deniedKeys = {}
    /\ keysUsed = 0

Init == InitLimiter /\ VerifyIdle /\ VolumeIdle /\ RoutesIdle

\* ------------------------------------------------------------------------
\* Actions of the limiter
\* ------------------------------------------------------------------------
\* The clock advances by half a window.
Tick ==
    /\ now + (window_seconds \div 2) <= MaxTicks * (window_seconds \div 2)
    /\ now' = now + (window_seconds \div 2)
    /\ UNCHANGED <<max_requests, window_seconds, db, docs, memory, pc, ckey,
                   cnow, snap, last, numCalls, served, admitted, deniedKeys, keysUsed>>
    /\ UNCHANGED <<verifyVars, volumeVars, routeVars>>

\* main.py:139-141  lifespan: rate_limiter.set_db(db)
SetDb ==
    /\ db = FALSE
    /\ db' = TRUE
    /\ UNCHANGED <<now, max_requests, window_seconds, docs, memory, pc, ckey,
                   cnow, snap, last, numCalls, served, admitted, deniedKeys, keysUsed>>
    /\ UNCHANGED <<verifyVars, volumeVars, routeVars>>

\* auth.py:164  return self._check_memory(...): the in-memory decision for
\* key k at the current time is the value check_async returns.
MemoryDecision(k) ==
    LET r == CheckMemory(memory[k], now, max_requests, window_seconds)
        id == <<"memory", DocId(k, now, window_seconds)>> IN
    /\ memory' = [memory EXCEPT ![k] = r.list]
    /\ last' = [key |-> k, mode |-> "memory", allowed |-> r.allowed]
    /\ admitted' = IF r.allowed THEN Bump(admitted, id) ELSE admitted
    /\ deniedKeys' = IF r.allowed THEN deniedKeys ELSE deniedKeys \cup {k}

\* auth.py:153-164  check_async entered with no store configured: the call is
\* decided by _check_memory at once.
CallNoDb(k) ==
    /\ numCalls < MaxCalls
    /\ NextKey(k)
    /\ ~db
    /\ numCalls' = numCalls + 1
    /\ keysUsed' = Max2(keysUsed, KeyIndex(k))
    /\ MemoryDecision(k)
    /\ UNCHANGED <<now, max_requests, window_seconds, db, docs, pc, ckey, cnow,
                   snap, served>>
    /\ UNCHANGED <<verifyVars, volumeVars, routeVars>>

\* auth.py:158-160, 170-178, 202  check_async with a store: _check_firestore
\* captures now, derives the document id and opens the transaction.  The
\* request is taken by the first free handler (handlers are interchangeable).
CallDb(p, k) ==
    /\ pc[p] = "idle"
    /\ \A q \in Procs : q < p => pc[q] # "idle"
    /\ NextKey(k)
    /\ numCalls < MaxCalls
    /\ db
    /\ numCalls' = numCalls + 1
    /\ keysUsed' = Max2(keysUsed, KeyIndex(k))
    /\ ckey' = [ckey EXCEPT ![p] = k]
    /\ cnow' = [cnow EXCEPT ![p] = now]
    /\ pc' = [pc EXCEPT ![p] = "txn_get"]
    /\ UNCHANGED <<now, max_requests, window_seconds, db, docs, memory, snap,
                   last, served, admitted, deniedKeys>>
    /\ UNCHANGED <<verifyVars, volumeVars, routeVars>>

\* auth.py:182  doc = await ref.get(transaction=txn)
TxnGet(p) ==
    /\ pc[p] = "txn_get"
    /\ snap' = [snap EXCEPT ![p] = GetDoc(DocId(ckey[p], cnow[p], window_seconds))]
    /\ pc' = [pc EXCEPT ![p] = "txn_commit"]
    /\ UNCHANGED <<now, max_requests, window_seconds, db, docs, memory, ckey,
                   cnow, last, numCalls, served, admitted, deniedKeys, keysUsed>>
    /\ UNCHANGED <<verifyVars, volumeVars, routeVars>>

\* The handler has its return value and is free for the next request.
Release(p) ==
    /\ pc' = [pc EXCEPT ![p] = "idle"]
    /\ ckey' = [ckey EXCEPT ![p] = NoKey]
    /\ cnow' = [cnow EXCEPT ![p] = 0]
    /\ snap' = [snap EXCEPT ![p] = NoDoc]

\* The commit of the transaction when the document is as it was read: the
\* buffered write is applied and update_in_txn's value is returned.
CommitEffect(p) ==
    LET id == DocId(ckey[p], cnow[p], window_seconds)
        u == UpdateInTxn(snap[p], cnow[p], max_requests, window_seconds) IN
    /\ docs' = IF u.write
               THEN [d \in (DOMAIN docs) \cup {id} |-> IF d = id THEN u.doc ELSE docs[d]]
               ELSE docs
    /\ last' = [key |-> ckey[p], mode |-> "durable", allowed |-> u.allowed]
    /\ served' = Bump(served, id)
    /\ admitted' = IF u.allowed THEN Bump(admitted, <<"durable", id>>) ELSE admitted
    /\ deniedKeys' = deniedKeys
    /\ Release(p)

\* The retry of the transaction body after a conflicting commit.
CommitRetry(p) ==
    /\ pc' = [pc EXCEPT ![p] = "txn_get"]
    /\ UNCHANGED <<docs, last, served, admitted, deniedKeys, ckey, cnow, snap>>

\* A transaction that commits whatever was written since it read.
ConflictIgnored(p) == FALSE

\* The commit goes through only if the document was not written since the
\* transaction read it.
Conflict(p) == GetDoc(DocId(ckey[p], cnow[p], window_seconds)) # snap[p]

\* auth.py:180-203  @firestore.async_transactional: update_in_txn runs on the
\* snapshot; on a conflict the body is run again.
TxnCommit(p) ==
    /\ pc[p] = "txn_commit"
    /\ IF Conflict(p) THEN CommitRetry(p) ELSE CommitEffect(p)
    /\ UNCHANGED <<now, max_requests, window_seconds, db, memory, numCalls, keysUsed>>
    /\ UNCHANGED <<verifyVars, volumeVars, routeVars>>

\* auth.py:161-164  the transaction raises (store unreachable, retries
\* exhausted): check_async handles the exception.
TxnFail(p) ==
    LET k == ckey[p]
        h == OnStoreError(memory[k], now, max_requests, window_seconds)
        id == <<"memory", DocId(k, now, window_seconds)>> IN
    /\ pc[p] \in {"txn_get", "txn_commit"}
    /\ memory' = [memory EXCEPT ![k] = h.list]
    /\ last' = [key |-> k, mode |-> IF h.raised THEN "raised" ELSE "memory",
                allowed |-> h.allowed]
    /\ admitted' = IF h.allowed THEN Bump(admitted, id) ELSE admitted
    /\ deniedKeys' = IF h.allowed \/ h.raised THEN deniedKeys ELSE deniedKeys \cup {k}
    /\ Release(p)
    /\ UNCHANGED <<now, max_requests, window_seconds, db, docs, numCalls, served,
                   keysUsed>>
    /\ UNCHANGED <<verifyVars, volumeVars, routeVars>>

NextLimiter ==
    \/ Tick
    \/ SetDb
    \/ \E k \in Keys : CallNoDb(k)
    \/ \E p \in Procs, k \in Keys : CallDb(p, k)
    \/ \E p \in Procs : TxnGet(p)
    \/ \E p \in Procs : TxnCommit(p)
    \/ \E p \in Procs : TxnFail(p)

Next == NextLimiter

Spec == Init /\ [][Next]_vars

\* ------------------------------------------------------------------------
\* Properties of the limiter
\* ------------------------------------------------------------------------
BucketIds == {x[2] : x \in DOMAIN admitted}
AdmittedBy(m, id) == Count(admitted, <<m, id>>)
InWindow(ts, t, ws) == Cardinality({i \in 1..Len(ts) : ts[i] > t - ws})
MemoryTotal(k) ==
    LET ids == {id \in BucketIds : id[1] = k}
        RECURSIVE Sum(_)
        Sum(S) == IF S = {} THEN 0
                  ELSE LET x == CHOOSE y \in S : TRUE
                       IN AdmittedBy("memory", x) + Sum(S \ {x})
    IN Sum(ids)

\* A step in which handler p's transaction ends without a decision of the
\* durable store, that is, by an exception.
StoreRaised(p) ==
    /\ pc[p] \in {"txn_get", "txn_commit"}
    /\ pc'[p] = "idle"
    /\ served' = served

\* A step in which check_async returns a value decided by mode m.
Returned(m) ==
    /\ last'.mode = m
    /\ \/ \E p \in Procs : pc[p] # "idle" /\ pc'[p] = "idle"
       \/ numCalls' # numCalls /\ pc' = pc

\* C1 (as stated): for every key and bucket, the calls admitted in the bucket,
\* by the durable store and by the in-memory fallback together, number at most
\* max_requests.
C1_AtMostMaxPerBucket ==
    \A id \in BucketIds :
        AdmittedBy("durable", id) + AdmittedBy("memory", id) <= max_requests

\* C1 (amended): for every key and bucket, at most max_requests calls are
\* admitted by the durable store and at most max_requests by the in-memory
\* list; the two counts are kept apart.
C1_AtMostMaxPerBucketAndMode ==
    \A id \in BucketIds :
        /\ AdmittedBy("durable", id) <= max_requests
        /\ AdmittedBy("memory", id) <= max_requests

\* Both modes have admitted max_requests calls in one bucket and the latest
\* call was denied.
C1_Witness ==
    \E id \in BucketIds :
        /\ AdmittedBy("durable", id) = max_requests
        /\ AdmittedBy("memory", id) = max_requests
        /\ last.key = id[1]
        /\ ~last.allowed

\* C2: of the N calls the durable store has decided for a document, exactly
\* min(N, max_requests) were admitted, under every interleaving of the reads
\* and commits of concurrent transactions.
C2_DurableAdmitsExactlyMin ==
    \A id \in DOMAIN served :
        AdmittedBy("durable", id) = Min2(served[id], max_requests)

\* Two transactions read the same document with exactly one slot left; one
\* has committed and taken it, the other is about to commit on its stale read.
C2_Witness ==
    \E p \in Procs, id \in DOMAIN served :
        /\ pc[p] = "txn_commit"
        /\ id = DocId(ckey[p], cnow[p], window_seconds)
        /\ snap[p].count = max_requests - 1
        /\ Conflict(p)
        /\ AdmittedBy("durable", id) = max_requests

\* C3: whenever check_async returns a denial, in either mode, remaining() for
\* that key is 0 (and it is never negative).
C3_RemainingZeroAfterDenial ==
    [][\A m \in {"durable", "memory"} :
          (Returned(m) /\ ~last'.allowed)
              => Remaining(memory'[last'.key], now', max_requests, window_seconds) = 0]_vars

\* C4: a call decided in memory is admitted exactly when fewer than
\* max_requests of the key's admission times are newer than now - window, so
\* a key denied at capacity is admitted again once its old admissions expire.
C4_MemoryCountsOnlyWindow ==
    [][Returned("memory")
          => (last'.allowed
                <=> InWindow(memory[last'.key], now, window_seconds) < max_requests)]_vars

\* A key that the in-memory list has denied is admitted by it again, for the
\* (max_requests+1)-th time or later: earlier admissions have expired.
C4_Witness ==
    /\ last.mode = "memory"
    /\ last.allowed
    /\ last.key \in deniedKeys
    /\ MemoryTotal(last.key) > max_requests
    /\ Len(memory[last.key]) <= max_requests

\* C5: when a handler's transaction raises, check_async returns a boolean: the
\* decision of the in-memory list of the same key under the same limits.
C5_StoreFailureFallsBack ==
    [][\A p \in Procs :
          StoreRaised(p)
              => /\ last'.mode = "memory"
                 /\ last'.key = ckey[p]
                 /\ last'.allowed
                      <=> InWindow(memory[ckey[p]], now, window_seconds) < max_requests]_vars

\* A call was decided in memory although the store is set and has documents.
C5_Witness ==
    /\ db
    /\ DOMAIN docs # {}
    /\ last.mode = "memory"
\* ---- actions -----------------------------------------------------------
\* agent.py:338-347  _x402_headers: a 402 response quotes the price.
QuoteAgent(amount) ==
    /\ quoted' = [via |-> "agent", amount |-> amount,
                  header |-> EncodeX402Header(amount, x402_network)]
    /\ UNCHANGED <<test_mode, x402_network, cdp_auth, facilitator_url, vwire,
                   vpc, vcall, vreq, vres, settleCalls>>
    /\ UNCHANGED <<limiterVars, volumeVars, routeVars>>

\* reader.py:127-159  _reader_x402_headers: a 402 response quotes the price.
QuoteReader(amount) ==
    /\ quoted' = [via |-> "reader", amount |-> amount,
                  header |-> ReaderX402Header(amount, x402_network)]
    /\ UNCHANGED <<test_mode, x402_network, cdp_auth, facilitator_url, vwire,
                   vpc, vcall, vreq, vres, settleCalls>>
    /\ UNCHANGED <<limiterVars, volumeVars, routeVars>>

\* auth.py:292-395  verify_x402_payment(h, amount) runs up to its first
\* await: it returns at once or posts the settle request.
VerifyCall(h, amount) ==
    LET auth == SigningFor(facilitator_url, cdp_auth)
        o == BeforePost(h, amount, test_mode, x402_network, auth) IN
    /\ vpc # "posted"
    /\ o.kind = "post" => settleCalls < MaxSettleCalls
    /\ vcall' = [header |-> h, amount |-> amount, fac |-> NoFac]
    /\ vreq' = o.request
    /\ vwire' = IF o.kind = "post" THEN SettleWire(facilitator_url, o.request.auth)
                ELSE NoWire
    /\ vres' = o.result
    /\ vpc' = IF o.kind = "post" THEN "posted" ELSE "returned"
    /\ settleCalls' = IF o.kind = "post" THEN settleCalls + 1 ELSE settleCalls
    /\ UNCHANGED <<test_mode, x402_network, cdp_auth, facilitator_url, quoted>>
    /\ UNCHANGED <<limiterVars, volumeVars, routeVars>>

\* auth.py:390-434  the POST ends (answer, timeout or error) and the result
\* is returned.
VerifyReturn(fac) ==
    /\ vpc = "posted"
    /\ vcall' = [vcall EXCEPT !.fac = fac]
    /\ vres' = AfterPost(fac, vcall.amount)
    /\ vpc' = "returned"
    /\ UNCHANGED <<test_mode, x402_network, cdp_auth, facilitator_url, vwire,
                   vreq, settleCalls, quoted>>
    /\ UNCHANGED <<limiterVars, volumeVars, routeVars>>

NextVerify ==
    \/ \E a \in Amounts : QuoteAgent(a)
    \/ \E a \in Amounts : QuoteReader(a)
    \/ \E h \in Headers, a \in Amounts : VerifyCall(h, a)
    \/ \E f \in Facilitator : VerifyReturn(f)

InitV == LimiterIdle /\ InitVerify /\ VolumeIdle /\ RoutesIdle

SpecVerify == InitV /\ [][NextVerify]_vars

\* ------------------------------------------------------------------------
\* Properties of the verification engine
\* ------------------------------------------------------------------------
Answered200 == vreq.sent /\ vcall.fac.kind = "response" /\ vcall.fac.status = 200

\* A valid result comes from test mode or from a 200 answer that is a bare
\* string or an object whose success is true.
ValidOnlyWhenSettled ==
    vres.valid =>
        \/ test_mode
        \/ /\ Answered200
           /\ \/ vcall.fac.body.t = "str"
              \/ vcall.fac.body.t = "obj" /\ vcall.fac.body.success = "true"

\* The latest call met a timeout, a non-200 status, a success=false body, an
\* undecodable header or an exception (connection error, body that is not
\* JSON, payload that is not an object, signing error).
FailureCase ==
    \/ vcall.fac.kind \in {"timeout", "connect_error"}
    \/ vcall.fac.kind = "response" /\ vcall.fac.status # 200
    \/ Answered200 /\ vcall.fac.body.t = "obj" /\ vcall.fac.body.success = "false"
    \/ Answered200 /\ vcall.fac.body.t = "notjson"
    \/ vcall.header.content.t # "obj"
    \/ vcall.header.wire # "empty" /\ ~test_mode /\ cdp_auth = "badkey"

\* C6 as stated: a returned result is valid only in test mode or after a 200
\* answer that is a bare string or an object whose success is true, and a
\* timeout, a non-200 status, a success=false body, an undecodable header or
\* an exception always gives valid=false.
C6_FailureAlwaysInvalid ==
    vpc = "returned" =>
        /\ ValidOnlyWhenSettled
        /\ FailureCase => ~vres.valid

\* C6: a returned result is valid only in test mode or after a 200 answer that
\* is a bare string or an object whose success is true; outside test mode a
\* timeout, a non-200 status, a success=false body, an undecodable header or
\* an exception gives valid=false.
C6_ValidOnlyWhenSettled ==
    vpc = "returned" =>
        /\ ValidOnlyWhenSettled
        /\ (~test_mode /\ FailureCase) => ~vres.valid

\* Outside test mode a result is valid after the facilitator answered 200 with
\* an object whose success is true.
C6_Witness ==
    /\ vpc = "returned"
    /\ ~test_mode
    /\ vres.valid
    /\ vcall.fac.body.t = "obj"

\* C7: a call with the empty header returns valid=false and never posts a
\* settle request.
C7_EmptyHeaderFailsWithoutRequest ==
    (vpc # "init" /\ vcall.header.wire = "empty") =>
        /\ vpc = "returned"
        /\ ~vres.valid
        /\ ~vreq.sent

\* A call with the empty header has returned the missing-header result.
C7_Witness ==
    /\ vpc = "returned"
    /\ vcall.header.wire = "empty"
    /\ vres.error = <<"Missing payment header">>

\* C8: verify_x402_payment never raises: whatever the header, the amount and
\* the facilitator's behaviour, it returns a result.
C8_NeverRaises == ~vres.raised

\* A call has returned the result made from the connection error that the
\* POST raised.
C8_Witness ==
    /\ vpc = "returned"
    /\ vcall.fac.kind = "connect_error"
    /\ vres.error = <<"Verification error: ", "ConnectError">>

\* C9: the requirements of a settle request sent for an amount equal the
\* accepts entry of the 402 header quoted for that amount.
C9_RequirementsMatchQuote ==
    (vreq.sent /\ quoted.via # "none" /\ quoted.amount = vcall.amount) =>
        vreq.paymentRequirements = quoted.header.content.accepts[1]

\* A settle request was sent for a quoted amount that lies between two USDC
\* units.
C9_Witness ==
    /\ vreq.sent
    /\ quoted.via = "reader"
    /\ quoted.amount = vcall.amount
    /\ vcall.amount = 15

\* C10: when the header decodes and the facilitator answers 200 with an object
\* whose success is false and which carries an error string, the result is
\* valid=false with exactly that string as its error.
C10_ErrorStringPropagated ==
    (/\ vpc = "returned"
     /\ Answered200
     /\ vcall.fac.body.t = "obj"
     /\ vcall.fac.body.success = "false"
     /\ vcall.fac.body.hasError)
        => /\ ~vres.valid
           /\ vres.error = Str(vcall.fac.body.error)

\* The facilitator answered 200 with success false and an error string.
C10_Witness ==
    /\ vpc = "returned"
    /\ Answered200
    /\ vcall.fac.body.t = "obj"
    /\ vcall.fac.body.success = "false"
    /\ vcall.fac.body.hasError
    /\ vres.error = <<"insufficient funds">>
\* C11: when the facilitator answers 200 with a bare string, the result is
\* valid, its transaction reference is that string and its settled amount is
\* the required amount.
C11_BareStringIsReference ==
    (vpc = "returned" /\ Answered200 /\ vcall.fac.body.t = "str") =>
        /\ vres.valid
        /\ vres.tx_hash = vcall.fac.body.s
        /\ vres.amount_usd = vcall.amount

\* The facilitator answered 200 with the bare string 0xABCDEF for an amount
\* that is not the reader price.
C11_Witness ==
    /\ vpc = "returned"
    /\ Answered200
    /\ vcall.fac.body = BodyString
    /\ vcall.amount = 25
    /\ vres.tx_hash = "0xABCDEF"

\* ------------------------------------------------------------------------
\* Actions of the volume ledger
\* ------------------------------------------------------------------------
\* main.py:145  volume_tracker.set_db(db)
VolumeSetDb ==
    /\ ~vt_db
    /\ vt_db' = TRUE
    /\ UNCHANGED <<genesis, vnow, ledger, rpc, rwallet, rpur, rnow, rsnap, rlast,
                   pruned, numPurchases>>
    /\ UNCHANGED <<limiterVars, verifyVars, routeVars>>

\* Half a window passes.
VolumeTick ==
    /\ vnow + WindowDays \div 2 <= MaxVolumeTicks * (WindowDays \div 2)
    /\ vnow' = vnow + WindowDays \div 2
    /\ UNCHANGED <<vt_db, genesis, ledger, rpc, rwallet, rpur, rnow, rsnap, rlast,
                   pruned, numPurchases>>
    /\ UNCHANGED <<limiterVars, verifyVars, routeVars>>

\* volume_tracker.py:53-58  record_purchase(w, pur) up to its first await
RecordPurchaseCall(p, w, pur) ==
    /\ rpc[p] = "idle"
    /\ \A q \in Procs : q < p => rpc[q] # "idle"
    /\ IF ~vt_db \/ w = ""
       THEN /\ rlast' = LedgerReturn("record", w, "nostore", GetVolumePrice(0, genesis))
            /\ UNCHANGED <<rpc, rwallet, rpur, rnow, numPurchases>>
       ELSE /\ numPurchases < MaxPurchases
            /\ numPurchases' = numPurchases + 1
            /\ rpc' = [rpc EXCEPT ![p] = "get"]
            /\ rwallet' = [rwallet EXCEPT ![p] = w]
            /\ rpur' = [rpur EXCEPT ![p] = pur]
            /\ rnow' = [rnow EXCEPT ![p] = vnow]
            /\ UNCHANGED rlast
    /\ UNCHANGED <<vt_db, genesis, vnow, ledger, rsnap, pruned>>
    /\ UNCHANGED <<limiterVars, verifyVars, routeVars>>

\* volume_tracker.py:61  doc = await doc_ref.get()
RecordGet(p) ==
    /\ rpc[p] = "get"
    /\ rsnap' = [rsnap EXCEPT ![p] = ledger[rwallet[p]]]
    /\ rpc' = [rpc EXCEPT ![p] = "set"]
    /\ UNCHANGED <<vt_db, genesis, vnow, ledger, rwallet, rpur, rnow, rlast,
                   pruned, numPurchases>>
    /\ UNCHANGED <<limiterVars, verifyVars, routeVars>>

\* The handler is free again.
RecordRelease(p) ==
    /\ rpc' = [rpc EXCEPT ![p] = "idle"]
    /\ rwallet' = [rwallet EXCEPT ![p] = ""]
    /\ rpur' = [rpur EXCEPT ![p] = NoPurchase]
    /\ rnow' = [rnow EXCEPT ![p] = 0]
    /\ rsnap' = [rsnap EXCEPT ![p] = NoLedger]

\* volume_tracker.py:63-117  await doc_ref.set(...) and the tier returned
RecordSet(p) ==
    LET w == rwallet[p]
        o == PurchaseWrite(rsnap[p], rnow[p], rpur[p]) IN
    /\ rpc[p] = "set"
    /\ ledger' = [ledger EXCEPT ![w] = o.doc]
    /\ rlast' = LedgerReturn("record", w, "wrote",
                             PurchaseTier(o.total_records, o.total_spend, genesis))
    /\ pruned' = IF Len(o.doc.events) <= Len(rsnap[p].events) THEN pruned \cup {w} ELSE pruned
    /\ RecordRelease(p)
    /\ UNCHANGED <<vt_db, genesis, vnow, numPurchases>>
    /\ UNCHANGED <<limiterVars, verifyVars, routeVars>>

\* volume_tracker.py:119-121  the get or the set raises
RecordFail(p) ==
    /\ rpc[p] \in {"get", "set"}
    /\ rlast' = OnLedgerError("record", rwallet[p], genesis)
    /\ RecordRelease(p)
    /\ UNCHANGED <<vt_db, genesis, vnow, ledger, pruned, numPurchases>>
    /\ UNCHANGED <<limiterVars, verifyVars, routeVars>>

\* A get_tier that writes its lookup into the ledger as an event.
GetTierAppending(w) ==
    /\ vt_db
    /\ w # ""
    /\ rlast' = LedgerReturn("get_tier", w, "found",
                             GetVolumePrice(ledger[w].records_30d, genesis))
    /\ ledger' = [ledger EXCEPT ![w] =
                     [@ EXCEPT !.exists = TRUE,
                               !.events = Append(@, [timestamp |-> vnow, records |-> 0,
                                                     amount_usd |-> 0])]]
    /\ UNCHANGED <<vt_db, genesis, vnow, rpc, rwallet, rpur, rnow, rsnap,
                   pruned, numPurchases>>
    /\ UNCHANGED <<limiterVars, verifyVars, routeVars>>

\* volume_tracker.py:123-136  get_tier(w): one read
GetTier(w) ==
    /\ rlast' =
          IF ~vt_db \/ w = ""
          THEN LedgerReturn("get_tier", w, "nostore", GetVolumePrice(0, genesis))
          ELSE IF ledger[w].exists
          THEN LedgerReturn("get_tier", w, "found",
                            GetVolumePrice(ledger[w].records_30d, genesis))
          ELSE LedgerReturn("get_tier", w, "unknown", GetVolumePrice(0, genesis))
    /\ rlast' # rlast
    /\ UNCHANGED <<vt_db, genesis, vnow, ledger, rpc, rwallet, rpur, rnow, rsnap,
                   pruned, numPurchases>>
    /\ UNCHANGED <<limiterVars, verifyVars, routeVars>>

\* volume_tracker.py:128-136  get_tier(w): the read raises
GetTierFail(w) ==
    /\ vt_db
    /\ w # ""
    /\ rlast' = OnLedgerError("get_tier", w, genesis)
    /\ rlast' # rlast
    /\ UNCHANGED <<vt_db, genesis, vnow, ledger, rpc, rwallet, rpur, rnow, rsnap,
                   pruned, numPurchases>>
    /\ UNCHANGED <<limiterVars, verifyVars, routeVars>>

NextVolume ==
    \/ VolumeSetDb
    \/ VolumeTick
    \/ \E p \in Procs, w \in WalletInputs, pur \in PurchaseInputs :
          RecordPurchaseCall(p, w, pur)
    \/ \E p \in Procs : RecordGet(p)
    \/ \E p \in Procs : RecordSet(p)
    \/ \E p \in Procs : RecordFail(p)
    \/ \E w \in WalletInputs : GetTier(w)
    \/ \E w \in Wallets : GetTierFail(w)

InitL == LimiterIdle /\ VerifyIdle /\ VolumeIdle /\ RoutesIdle

SpecVolume == InitL /\ [][NextVolume]_vars
\* ------------------------------------------------------------------------
\* Properties of the volume ledger
\* ------------------------------------------------------------------------
\* The events of the stored document that a write at time t has to keep.
Retained(w, t) == PruneEvents(ledger[w].events, t)

\* C12: concurrent record_purchase calls for one wallet lose no update: each
\* write keeps every event of the stored document that is inside the window
\* and adds its own, and records_30d and spend_30d count them all.
C12_NoLostUpdate ==
    [][\A p \in Procs :
          RecordSet(p) =>
              LET w == rwallet[p]
                  kept == Retained(w, rnow[p]) IN
              /\ Len(ledger'[w].events) = Len(kept) + 1
              /\ ledger'[w].records_30d = SumRecords(kept) + rpur[p].records
              /\ ledger'[w].spend_30d = Round2(SumSpend(kept) + rpur[p].amount_usd)]_vars
\* The tier label that goes with a number of records: the first of the
\* thresholds 2000, 500, 100, 0 that the number meets.
ExpectedLabel(n) ==
    IF n >= 2000 THEN "Loyalty floor"
    ELSE IF n >= 500 THEN "Volume"
    ELSE IF n >= 100 THEN "Batch"
    ELSE "Standard"

\* C13: records_30d of a stored document is the sum of the record counts of
\* its events, and the tier a record_purchase returns after its write is the
\* first of the thresholds 2000, 500, 100, 0 that this sum meets: 120 records
\* give the entry tier, 2000 more the loyalty-floor tier.
C13_TierFromRetainedSum ==
    /\ \A w \in Wallets :
          ledger[w].exists => ledger[w].records_30d = SumRecords(ledger[w].events)
    /\ (rlast.op = "record" /\ rlast.cause = "wrote") =>
          /\ rlast.tier.cumulative_records = ledger[rlast.wallet].records_30d
          /\ rlast.tier.label = ExpectedLabel(SumRecords(ledger[rlast.wallet].events))
          /\ SumRecords(ledger[rlast.wallet].events) = 120 => rlast.tier.label = "Batch"
          /\ SumRecords(ledger[rlast.wallet].events) = 2120
                => rlast.tier.label = "Loyalty floor"

\* Three purchases of 40 records and one of 2000, all inside the window, have
\* been written and the last call returned the loyalty-floor tier.
C13_Witness ==
    /\ rlast.op = "record"
    /\ rlast.cause = "wrote"
    /\ Len(ledger["0xA"].events) = 4
    /\ \A i \in 1..3 : ledger["0xA"].events[i].records = 40
    /\ ledger["0xA"].events[4].records = 2000
    /\ ledger["0xA"].records_30d = 2120
    /\ rlast.tier.label = "Loyalty floor"

\* C14: a stored document holds no event older than 30 days before the write
\* that stored it (the time of that write is the timestamp of the event it
\* appended): every stored event is newer than that time minus 30 days, and
\* records_30d and spend_30d are sums over the stored events only.
C14_PrunedOnWrite ==
    \A w \in Wallets :
        ledger[w].exists =>
            LET ev == ledger[w].events
                t == ev[Len(ev)].timestamp IN
            /\ \A i \in 1..Len(ev) : ev[i].timestamp > t - WindowDays
            /\ ledger[w].records_30d = SumRecords(ev)
            /\ ledger[w].spend_30d = Round2(SumSpend(ev))

\* A write on day 30 dropped an event of day 0 and kept one of day 15.
C14_Witness ==
    /\ "0xA" \in pruned
    /\ Len(ledger["0xA"].events) = 2
    /\ ledger["0xA"].events[1].timestamp = 15
    /\ ledger["0xA"].events[2].timestamp = 30

\* The tier outside every discount.
StandardTier ==
    [per_record |-> IF genesis THEN 1600 ELSE 2000, discount |-> "0%",
     label |-> "Standard", cumulative_records |-> 0, has_spend |-> FALSE,
     spend_30d |-> 0, enterprise_outreach |-> FALSE]

Respond(r, o) ==
    /\ numRequests' = numRequests + 1
    /\ r.settled => /\ \E i \in 1..Len(o.steps) : o.steps[i] = "verify"
                    /\ o.verified.header # ""
    /\ req' = r
    /\ verified' = o.verified
    /\ txlog' = IF o.logPrice # 0
                THEN Append(txlog, [endpoint |-> r.endpoint, amount_usd |-> o.logPrice])
                ELSE txlog
    /\ trail' = o.steps
    /\ resp' = o.resp
    /\ quota' = IF o.admitKey = <<>> THEN quota
                ELSE [k \in DOMAIN quota \cup {o.admitKey} |->
                         IF k = o.admitKey THEN Append(QuotaList(quota, k), 0)
                         ELSE quota[k]]
    /\ reqRecords' = IF r.x_wallet # "" THEN ledger[r.x_wallet].records_30d ELSE 0
    /\ ledger' = IF o.recordPrice # 0 /\ vt_db
                 THEN [ledger EXCEPT ![r.x_wallet] =
                          PurchaseWrite(@, vnow, [records |-> 1,
                                                  amount_usd |-> o.recordPrice]).doc]
                 ELSE ledger
    /\ UNCHANGED <<vt_db, genesis, vnow, rpc, rwallet, rpur, rnow, rsnap, rlast,
                   pruned, numPurchases>>
    /\ UNCHANGED <<limiterVars, verifyVars, deliverVars>>

\* agent.py:977-1106  a request to get_curated_artifact
GetCuratedArtifact(target, wallet, proof, settled) ==
    /\ numRequests < MaxRouteRequests
    /\ LET r == Request("curated", target, wallet, "", proof, FALSE, settled) IN
       Respond(r, CuratedArtifact(r, quota, max_requests, genesis))

\* agent.py:1221-1418  a request to get_oracle_artifact
GetOracleArtifact(target, xw, proof, settled) ==
    /\ numRequests < MaxRouteRequests
    /\ LET r == Request("oracle", target, "", xw, proof, FALSE, settled) IN
       Respond(r, OracleArtifact(r, genesis))

\* reader.py:234-330  a request to read_artifact
GetReadArtifact(target, wallet, proof, buyer, settled) ==
    /\ numRequests < MaxRouteRequests
    /\ LET r == Request("reader", target, wallet, "", proof, buyer, settled) IN
       Respond(r, ReadArtifact(r, quota, max_requests))

\* agent.py:908-923  a request to search_artifacts
GetSearch(wallet) ==
    /\ numRequests < MaxRouteRequests
    /\ LET r == Request("search", "exists", wallet, "", NoProof, FALSE, FALSE) IN
       Respond(r, SearchArtifacts(r, quota, max_requests))

\* agent.py:1443-1502  a request to get_artifact_image
GetArtifactImage(target, wallet) ==
    /\ numRequests < MaxRouteRequests
    /\ LET r == Request("image", target, wallet, "", NoProof, FALSE, FALSE) IN
       Respond(r, ArtifactImage(r, quota, max_requests))

\* catalog.py:269-292  a request to preview_dataset
GetPreview(target) ==
    /\ numRequests < MaxRouteRequests
    /\ LET r == Request("preview", target, "", "", NoProof, FALSE, FALSE) IN
       Respond(r, PreviewDataset(r, quota, max_requests))

\* volume_tracker.py:35-121  record_purchase(w, pur) run to its end without
\* another call in between: the wallet's first purchase
FirstPurchase(w, pur) ==
    /\ vt_db
    /\ ~ledger[w].exists
    /\ ledger' = [ledger EXCEPT ![w] = PurchaseWrite(@, vnow, pur).doc]
    /\ UNCHANGED <<vt_db, genesis, vnow, rpc, rwallet, rpur, rnow, rsnap, rlast,
                   pruned, numPurchases>>
    /\ UNCHANGED <<limiterVars, verifyVars, routeVars>>

NextRoutes ==
    \/ \E t \in Targets, w \in WalletHeaders, pr \in Proofs, s \in BOOLEAN :
          GetCuratedArtifact(t, w, pr, s)
    \/ \E t \in Targets, xw \in WalletInputs, pr \in Proofs, s \in BOOLEAN :
          GetOracleArtifact(t, xw, pr, s)
    \/ \E t \in Targets, w \in WalletHeaders, pr \in Proofs, b \in BOOLEAN, s \in BOOLEAN :
          GetReadArtifact(t, w, pr, b, s)
    \/ \E w \in WalletHeaders : GetSearch(w)
    \/ \E t \in Targets, w \in WalletHeaders : GetArtifactImage(t, w)
    \/ \E t \in Targets : GetPreview(t)
    \/ \E w \in Wallets, pur \in PurchaseInputs : FirstPurchase(w, pur)

\* The service after startup (main.py:136-145) with the ledger connected and
\* nothing requested yet. Requests are handled one at a time inside one window,
\* where the durable counter and the in-memory list decide alike; the handlers'
\* limiter calls are decided on the in-memory list.
InitRoutes ==
    /\ now = 0
    /\ max_requests \in LimitChoices
    /\ window_seconds = SecondsPerDay
    /\ db = FALSE
    /\ docs = <<>>
    /\ memory = [k \in Keys |-> <<>>]
    /\ pc = [p \in Procs |-> "idle"]
    /\ ckey = [p \in Procs |-> NoKey]
    /\ cnow = [p \in Procs |-> 0]
    /\ snap = [p \in Procs |-> NoDoc]
    /\ last = NoLast
    /\ numCalls = 0
    /\ served = <<>>
    /\ admitted = <<>>
    /\ deniedKeys = {}
    /\ keysUsed = 0
    /\ VerifyIdle
    /\ vt_db = TRUE
    /\ genesis \in BOOLEAN
    /\ vnow = 0
    /\ ledger = [w \in Wallets |-> NoLedger]
    /\ rpc = [p \in Procs |-> "idle"]
    /\ rwallet = [p \in Procs |-> ""]
    /\ rpur = [p \in Procs |-> NoPurchase]
    /\ rnow = [p \in Procs |-> 0]
    /\ rsnap = [p \in Procs |-> NoLedger]
    /\ rlast = NoLedgerReturn
    /\ pruned = {}
    /\ numPurchases = 0
    /\ RoutesIdle

SpecRoutes == InitRoutes /\ [][NextRoutes]_vars
\* C16: on every endpoint that can ask for payment, the payment proof is
\* verified only after the requested artifact was looked up: whenever a handler
\* called verify_x402_payment, the existence check came earlier in that request.
C16_ExistenceBeforePayment ==
    \A i \in 1..Len(trail) :
        trail[i] = "verify" =>
            /\ req.target = "exists"
            /\ \E j \in 1..(i - 1) : trail[j] = "exists"

\* The free admissions the limiter holds for the client under an endpoint's
\* key prefix, over all the fingerprints the client presented.
FreeAdmissions(prefix) ==
    Cardinality(UNION {{<<k, i>> : i \in 1..Len(quota[k])} :
                          k \in {x \in DOMAIN quota : x[1] = prefix}})

\* C17: for one client address, the free admissions of a window under one
\* endpoint never exceed the limit, whatever X-Wallet-Address values the
\* requests declared.
C17_QuotaPerClient ==
    \A k \in DOMAIN quota : FreeAdmissions(k[1]) <= max_requests

\* The window each rate-limited endpoint passes to the limiter.
EndpointWindow(endpoint) == IF endpoint = "search" THEN 3600 ELSE SecondsPerDay

\* C18: every response that reports an exhausted rate limit is a 429 carrying
\* Retry-After equal to the window's length in seconds.
C18_RetryAfterOn429 ==
    resp.status = 429 => resp.retry_after = EndpointWindow(req.endpoint)

\* C19: the price the oracle endpoint requires or settles for a wallet's next
\* Hybrid_Premium record is the per-record price of the tier the wallet's
\* 30-day volume has reached.
C19_VolumePriceCharged ==
    (req.endpoint = "oracle" /\ req.x_wallet # "" /\ resp.status \in {200, 402})
        => resp.price = GetVolumePrice(reqRecords, genesis).per_record

\* ------------------------------------------------------------------------
\* The limiter called with any limit
\* ------------------------------------------------------------------------
\* The limits check_async accepts: any count from 0 up.
AnyLimitChoices == 0..MaxLimit

InitAnyLimit ==
    /\ now = 0
    /\ max_requests \in AnyLimitChoices
    /\ window_seconds \in WindowChoices
    /\ db = FALSE
    /\ docs = <<>>
    /\ memory = [k \in Keys |-> <<>>]
    /\ pc = [p \in Procs |-> "idle"]
    /\ ckey = [p \in Procs |-> NoKey]
    /\ cnow = [p \in Procs |-> 0]
    /\ snap = [p \in Procs |-> NoDoc]
    /\ last = NoLast
    /\ numCalls = 0
    /\ served = <<>>
    /\ admitted = <<>>
    /\ deniedKeys = {}
    /\ keysUsed = 0
    /\ VerifyIdle
    /\ VolumeIdle
    /\ RoutesIdle

SpecAnyLimit == InitAnyLimit /\ [][NextLimiter]_vars

\* C20: the count of every document of the durable store is at most the
\* max_requests of the calls that created and incremented it, a limit of 0
\* included.
C20_CountWithinLimit ==
    \A id \in DOMAIN docs : docs[id].exists => docs[id].count <= max_requests

\* ------------------------------------------------------------------------
\* Further properties of the limiter
\* ------------------------------------------------------------------------
\* A step in which handler p's transaction commits the decision taken on the
\* document it read.
Committed(p) ==
    /\ pc[p] = "txn_commit"
    /\ pc'[p] = "idle"
    /\ served' # served

\* C21: a durable-mode call that finds count >= max_requests in the document
\* returns a denial and leaves every document of the store as it was.
C21_DenyLeavesDocument ==
    [][\A p \in Procs :
          (Committed(p) /\ snap[p].exists /\ snap[p].count >= max_requests)
              => /\ last' = [key |-> ckey[p], mode |-> "durable", allowed |-> FALSE]
                 /\ docs' = docs]_vars

\* The durable store has denied a call for a key whose document of the
\* current bucket stands at max_requests.
C21_Witness ==
    /\ last.mode = "durable"
    /\ ~last.allowed
    /\ GetDoc(DocId(last.key, now, window_seconds)).count = max_requests

\* ------------------------------------------------------------------------
\* The limiter with the dependency of the catalog routes
\* ------------------------------------------------------------------------
\* auth.py:262-264  limiter_key of require_rate_limit("preview", ...) for a
\* request without X-API-Key
PreviewKey == "preview:ip1"

\* auth.py:253-274, 215-217  the dependency made by require_rate_limit takes
\* its decision from rate_limiter.check, which is _check_memory.
RequireRateLimit ==
    /\ numCalls < MaxCalls
    /\ numCalls' = numCalls + 1
    /\ MemoryDecision(PreviewKey)
    /\ UNCHANGED <<now, max_requests, window_seconds, db, docs, pc, ckey, cnow,
                   snap, served, keysUsed>>
    /\ UNCHANGED <<verifyVars, volumeVars, routeVars>>

NextDependency ==
    \/ NextLimiter
    \/ RequireRateLimit

InitDependency ==
    /\ now = 0
    /\ max_requests \in LimitChoices
    /\ window_seconds \in WindowChoices
    /\ db = FALSE
    /\ docs = <<>>
    /\ memory = [k \in Keys \cup {PreviewKey} |-> <<>>]
    /\ pc = [p \in Procs |-> "idle"]
    /\ ckey = [p \in Procs |-> NoKey]
    /\ cnow = [p \in Procs |-> 0]
    /\ snap = [p \in Procs |-> NoDoc]
    /\ last = NoLast
    /\ numCalls = 0
    /\ served = <<>>
    /\ admitted = <<>>
    /\ deniedKeys = {}
    /\ keysUsed = 0
    /\ VerifyIdle
    /\ VolumeIdle
    /\ RoutesIdle

SpecDependency == InitDependency /\ [][NextDependency]_vars

\* C22: with a store configured, the limit of every rate-limited endpoint is
\* decided on the durable counter; the in-memory list decides a call only when
\* no store is configured or the call's transaction raised.
C22_MemoryOnlyWithoutStore ==
    [][Returned("memory") => (~db \/ \E p \in Procs : StoreRaised(p))]_vars

\* ------------------------------------------------------------------------
\* The limiter called with a window of several days
\* ------------------------------------------------------------------------
\* A window the limiter accepts that is longer than one day: three days.
LongWindow == 3 * SecondsPerDay

\* A day passes.
TickDay ==
    /\ now + SecondsPerDay <= MaxTicks * SecondsPerDay
    /\ now' = now + SecondsPerDay
    /\ UNCHANGED <<max_requests, window_seconds, db, docs, memory, pc, ckey,
                   cnow, snap, last, numCalls, served, admitted, deniedKeys, keysUsed>>
    /\ UNCHANGED <<verifyVars, volumeVars, routeVars>>

NextLongWindow ==
    \/ TickDay
    \/ SetDb
    \/ \E k \in Keys : CallNoDb(k)
    \/ \E p \in Procs, k \in Keys : CallDb(p, k)
    \/ \E p \in Procs : TxnGet(p)
    \/ \E p \in Procs : TxnCommit(p)
    \/ \E p \in Procs : TxnFail(p)

InitLongWindow ==
    /\ now = 0
    /\ max_requests \in LimitChoices
    /\ window_seconds = LongWindow
    /\ db = FALSE
    /\ docs = <<>>
    /\ memory = [k \in Keys |-> <<>>]
    /\ pc = [p \in Procs |-> "idle"]
    /\ ckey = [p \in Procs |-> NoKey]
    /\ cnow = [p \in Procs |-> 0]
    /\ snap = [p \in Procs |-> NoDoc]
    /\ last = NoLast
    /\ numCalls = 0
    /\ served = <<>>
    /\ admitted = <<>>
    /\ deniedKeys = {}
    /\ keysUsed = 0
    /\ VerifyIdle
    /\ VolumeIdle
    /\ RoutesIdle

SpecLongWindow == InitLongWindow /\ [][NextLongWindow]_vars

\* The buckets that lie wholly inside an interval of length ws that starts at
\* the start of bucket b: the bucket itself for a window below a day, else
\* the ws / 86400 calendar days from b on.
WholeBuckets(b, ws) ==
    IF ws >= SecondsPerDay
    THEN {<<"date", d>> : d \in b..(b + ws \div SecondsPerDay - 1)}
    ELSE {<<"epoch", b>>}

\* The calls the durable store admitted for key k in the buckets of B.
DurableAdmitted(k, B) ==
    LET RECURSIVE Sum(_)
        Sum(S) == IF S = {} THEN 0
                  ELSE LET x == CHOOSE y \in S : TRUE
                       IN AdmittedBy("durable", <<k, x>>) + Sum(S \ {x})
    IN Sum(B)

\* C23: in durable mode, for every key, the calls admitted within an interval
\* of length window_seconds number at most 2 x max_requests, for windows
\* below, of and above one day; stated for the intervals that start with a
\* bucket, which hold the admissions of the buckets lying wholly inside them.
C23_AtMostTwiceMaxPerWindow ==
    \A k \in Keys, b \in 0..MaxTicks :
        DurableAdmitted(k, WholeBuckets(b, window_seconds)) <= 2 * max_requests

\* auth.py:172-175  the time at which the bucket of a document id ends: the
\* end of the calendar day, or of the epoch interval of length ws.
BucketEnd(id, ws) ==
    IF id[2][1] = "date" THEN (id[2][2] + 1) * SecondsPerDay
    ELSE (id[2][2] + 1) * ws

StoreStalls(p) ==
    /\ pc[p] = "txn_get"
    /\ pc' = [pc EXCEPT ![p] = "txn_wait"]
    /\ UNCHANGED <<now, max_requests, window_seconds, db, docs, memory, ckey,
                   cnow, snap, last, numCalls, served, admitted, deniedKeys, keysUsed>>
    /\ UNCHANGED <<verifyVars, volumeVars, routeVars>>

NextStall ==
    \/ NextLimiter
    \/ \E p \in Procs : StoreStalls(p)

\* The event loop runs every handler whose awaited store call has completed.
FairHandlers == \A p \in Procs : WF_vars(TxnGet(p)) /\ WF_vars(TxnCommit(p))

SpecStall == Init /\ [][NextStall]_vars /\ FairHandlers

\* C25: every call of check_async eventually returns a decision, also when the
\* store never answers its lookup.
C25_CallEventuallyReturns ==
    \A p \in Procs : (pc[p] # "idle") ~> (pc[p] = "idle")

\* C26: handlers of one process that call the in-memory limiter for the same
\* key never have more than max_requests admissions inside one window, and
\* no admission is lost from the key's list: while nothing can have expired,
\* the list holds every call the in-memory limiter admitted for the key.
C26_MemoryNeverOveradmits ==
    \A k \in Keys :
        /\ InWindow(memory[k], now, window_seconds) <= max_requests
        /\ Len(memory[k]) <= MemoryTotal(k)
        /\ now < window_seconds => Len(memory[k]) = MemoryTotal(k)

\* Two handlers were inside check_async for the same key at once (the second
\* handler only takes a call while the first is busy, and no other call was
\* made); the first one's call was admitted in memory and filled the key's
\* window while the second is still inside its call.
C26_Witness ==
    \E p \in Procs :
        /\ p = 2
        /\ numCalls = 2
        /\ pc[p] # "idle"
        /\ ckey[p] = last.key
        /\ last.mode = "memory"
        /\ last.allowed
        /\ InWindow(memory[last.key], now, window_seconds) = max_requests

\* ------------------------------------------------------------------------
\* Further properties of the verification engine
\* ------------------------------------------------------------------------
\* The facilitator gives no answer within the 30 seconds of the client's
\* timeout (auth.py:390).
NoAnswer == [kind |-> "timeout", status |-> 0, body |-> BodyNotJson]

\* C27: when the facilitator does not answer the settle request, the call does
\* not stay pending (the timeout ends the POST) and it returns valid=false
\* with the timeout as its error, never valid=true and never an exception.
C27_TimeoutFailsClosed ==
    /\ vpc = "posted" => ENABLED VerifyReturn(NoAnswer)
    /\ (vpc = "returned" /\ vcall.fac = NoAnswer) =>
           /\ ~vres.raised
           /\ ~vres.valid
           /\ vres.amount_usd = 0
           /\ vres.error = <<"x402 facilitator timeout">>

\* A settle request was sent and met no answer; the call has returned.
C27_Witness ==
    /\ vpc = "returned"
    /\ vreq.sent
    /\ vcall.fac = NoAnswer
    /\ ~vres.valid

\* The latest call carried a header that is not empty and that neither
\* decoding turns into a JSON object.
NoObjectHeader ==
    /\ vpc # "init"
    /\ vcall.header.wire \in {"b64", "raw"}
    /\ vcall.header.content.t # "obj"

\* C28 (as stated): every non-empty header that decodes to a JSON object
\* neither as base64-wrapped JSON nor as raw JSON gives valid=false without a
\* request to the facilitator.
C28_UndecodableAlwaysRejected ==
    NoObjectHeader => (vpc = "returned" /\ ~vres.valid /\ ~vreq.sent)

\* C28 (amended): outside test mode every such header gives valid=false
\* without a request to the facilitator, and a header that both decodings
\* accept is read as base64-wrapped JSON.
C28_UndecodableRejectedOutsideTestMode ==
    ~test_mode =>
        /\ NoObjectHeader => (vpc = "returned" /\ ~vres.valid /\ ~vreq.sent)
        /\ (vreq.sent /\ vcall.header.wire = "both")
               => /\ vreq.paymentPayload = vcall.header.content
                  /\ vreq.x402Version = vcall.header.content.ver

\* Outside test mode a base64 header that does not hold JSON was refused as
\* undecodable, after an earlier call had posted a settle request.
C28_Witness ==
    /\ ~test_mode
    /\ vpc = "returned"
    /\ vcall.header = [wire |-> "b64", content |-> NotJson]
    /\ vres.error = <<"Cannot decode payment header">>
    /\ settleCalls > 0

\* The latest call carried a header that is not empty.
HeaderGiven == vpc # "init" /\ vcall.header.wire # "empty"

\* C29: in test mode every non-empty header gives valid=true with the required
\* amount as the settled amount, whether or not it can be decoded, and no
\* settle request is ever sent; outside test mode a non-empty header gets no
\* result that skips the decoding: it is refused as undecodable, or what it
\* decodes to is what goes on (into the settle request, or as a payload that
\* is not an object into the error).
C29_TestModeSkipsProduction ==
    /\ test_mode =>
          /\ settleCalls = 0
          /\ ~vreq.sent
          /\ HeaderGiven => /\ vpc = "returned"
                            /\ vres = Result(TRUE, vcall.amount, "test-mode-no-tx", <<>>)
    /\ (~test_mode /\ HeaderGiven) =>
          LET d == DecodeHeader(vcall.header) IN
          /\ ~d.ok => vres = Failed(<<"Cannot decode payment header">>)
          /\ vreq.sent => d.ok /\ vreq.paymentPayload = d.payload
          /\ (d.ok /\ ~vreq.sent) =>
                 vres.error \in {<<"Verification error: ", "AttributeError">>,
                                 <<"Verification error: ", "ValueError">>}

\* In test mode a header that cannot be decoded was accepted for an amount that
\* lies between two USDC units.
C29_Witness ==
    /\ test_mode
    /\ vpc = "returned"
    /\ vcall.header = [wire |-> "raw", content |-> NotJson]
    /\ vcall.amount = 15
    /\ vres.valid

\* C30: every result returned is well formed: valid=true comes with an empty
\* error and the required amount as the settled amount; valid=false comes with
\* an empty transaction reference, a settled amount of 0 and an error that is
\* not empty.
C30_ResultWellFormed ==
    vpc = "returned" =>
        /\ vres.valid => (vres.error = <<>> /\ vres.amount_usd = vcall.amount)
        /\ ~vres.valid =>
               (vres.tx_hash = "" /\ vres.amount_usd = 0 /\ vres.error # <<>>)


\* ------------------------------------------------------------------------
\* The signed settle request under any facilitator address
\* ------------------------------------------------------------------------
\* auth.py:26-36  the environment: any facilitator address, with or without
\* credentials, outside test mode on the default network.
InitSigning ==
    /\ test_mode = FALSE
    /\ x402_network = "eip155:8453"
    /\ cdp_auth \in AuthChoices
    /\ facilitator_url \in FacilitatorUrls
    /\ vwire = NoWire
    /\ vpc = "init"
    /\ vcall = NoCall
    /\ vreq = NoRequest
    /\ vres = NoResult
    /\ settleCalls = 0
    /\ quoted = NoQuote

InitS == LimiterIdle /\ InitSigning /\ VolumeIdle /\ RoutesIdle

SpecSigning == InitS /\ [][NextVerify]_vars

\* C31: whenever the settle request carries an Authorization header, the uris
\* claim of the assertion names exactly the method, host and path of the
\* request sent, for every facilitator address that triggers signing.
C31_UrisNameRequestSent ==
    (vreq.sent /\ vreq.auth) =>
        vwire.authorization.uris = <<UriText(vwire.method, vwire.host, vwire.path)>>

\* ========================================================================
\* Endpoints that always ask for payment (routes/agent.py, routes/enrich.py,
\* routes/deliver.py)
\* ========================================================================
\* agent.py:1584  the price of a metadata query, in 1/10000 USD
QueryPrice == 200

\* pricing.py:339-343  calculate_price("agent_batch", 100)["total"], in 1/10000 USD
BatchTotal(gen) == IF gen THEN 100 * Round4(50 * GenesisDiscountTenths) ELSE 100 * 500

\* agent.py:1700-1701  the price of the oracle_only enrichment, in 1/10000 USD
AgentEnrichPrice(gen) ==
    IF gen THEN Round2((2000 * GenesisDiscountTenths) \div 10) ELSE 2000

\* enrich.py:58, 215  the price of the nest_only tier, in 1/10000 USD
EnrichPrice == 10000

\* deliver.py:90-94, 177-179  total_price of an order of one hybrid_premium
\* artifact, in 1/10000 USD
OrderTotal(gen) == IF gen THEN Round2((2000 * GenesisDiscountTenths) \div 10) ELSE 2000

\* agent.py:1516-1573  batch_download: only the X-PAYMENT header is read
BatchDownload(r, gen) ==
    LET total == BatchTotal(gen)
        rest == [Outcome(<<"serve", "log">>, Response(200, 0, total), <<>>, 0)
                    EXCEPT !.logPrice = total] IN
    RequirePayment(<<>>, r.proof.x_payment, r.settled, total, rest)

\* agent.py:1575-1650  query_images: only the X-PAYMENT header is read
QueryImages(r) ==
    LET rest == [Outcome(<<"serve", "log">>, Response(200, 0, QueryPrice), <<>>, 0)
                    EXCEPT !.logPrice = QueryPrice] IN
    RequirePayment(<<>>, r.proof.x_payment, r.settled, QueryPrice, rest)

\* agent.py:1673-1760  enrich_agent_image: the tier, the payment (X-PAYMENT
\* only), the job, the ledger for X-WALLET, the transaction log
EnrichAgentImage(r, gen) ==
    IF r.target = "invalid" THEN Outcome(<<"exists">>, Response(400, 0, 0), <<>>, 0)
    ELSE LET price == AgentEnrichPrice(gen)
             rest == IF r.x_wallet # ""
                     THEN [Outcome(<<"job", "record", "log", "serve">>,
                                   Response(200, 0, price), <<>>, price)
                              EXCEPT !.logPrice = price]
                     ELSE [Outcome(<<"job", "log", "serve">>, Response(200, 0, price), <<>>, 0)
                              EXCEPT !.logPrice = price] IN
         RequirePayment(<<"exists">>, r.proof.x_payment, r.settled, price, rest)

\* enrich.py:193-278  enrich_image: the tier, a payment header that is there,
\* the job
EnrichImage(r) ==
    IF r.target = "invalid" THEN Outcome(<<"exists">>, Response(400, 0, 0), <<>>, 0)
    ELSE IF ProofHeader(r.proof) = ""
    THEN Outcome(<<"exists", "proof">>, Response(402, 0, EnrichPrice), <<>>, 0)
    ELSE Outcome(<<"exists", "proof", "job", "serve">>, Response(200, 0, EnrichPrice), <<>>, 0)

\* The states of a delivery order (deliver.py:202, 296, 389, 405).
OrderStatuses == {"awaiting_payment", "processing", "fulfilled", "failed"}

\* deliver.py:240-310  fulfill_delivery_order on an order in the given status,
\* with no other request in between
FulfillOrder(r, status, gen) ==
    IF r.target # "exists" THEN Outcome(<<"exists">>, Response(404, 0, 0), <<>>, 0)
    ELSE IF status = "fulfilled"
    THEN Outcome(<<"exists", "downloads">>, Response(200, 0, 0), <<>>, 0)
    ELSE IF status # "awaiting_payment"
    THEN Outcome(<<"exists">>, Response(400, 0, 0), <<>>, 0)
    ELSE PaymentThen(<<"exists">>, ProofHeader(r.proof), r.settled, OrderTotal(gen),
                     Outcome(<<"processing", "fulfil">>, Response(200, 0, OrderTotal(gen)),
                             <<>>, 0))

\* agent.py:1516-1573  a request to batch_download
PostBatch(proof, settled) ==
    /\ numRequests < MaxRouteRequests
    /\ LET r == Request("batch", "exists", "", "", proof, FALSE, settled) IN
       Respond(r, BatchDownload(r, genesis))

\* agent.py:1575-1650  a request to query_images
GetQuery(proof, settled) ==
    /\ numRequests < MaxRouteRequests
    /\ LET r == Request("query", "exists", "", "", proof, FALSE, settled) IN
       Respond(r, QueryImages(r))

\* agent.py:1673-1760  a request to enrich_agent_image
PostAgentEnrich(target, xw, proof, settled) ==
    /\ numRequests < MaxRouteRequests
    /\ LET r == Request("enrich_agent", target, "", xw, proof, FALSE, settled) IN
       Respond(r, EnrichAgentImage(r, genesis))

\* enrich.py:193-278  a request to enrich_image
PostEnrich(target, proof) ==
    /\ numRequests < MaxRouteRequests
    /\ LET r == Request("enrich", target, "", "", proof, FALSE, FALSE) IN
       Respond(r, EnrichImage(r))

\* deliver.py:240-310  a request to fulfill_delivery_order
PostFulfill(target, status, proof, settled) ==
    /\ numRequests < MaxRouteRequests
    /\ LET r == Request("fulfill", target, "", "", proof, FALSE, settled) IN
       Respond(r, FulfillOrder(r, status, genesis))

NextPaid ==
    \/ \E t \in Targets, w \in WalletHeaders, pr \in Proofs, s \in BOOLEAN :
          GetCuratedArtifact(t, w, pr, s)
    \/ \E t \in Targets, xw \in WalletInputs, pr \in Proofs, s \in BOOLEAN :
          GetOracleArtifact(t, xw, pr, s)
    \/ \E t \in Targets, w \in WalletHeaders, pr \in Proofs, b \in BOOLEAN, s \in BOOLEAN :
          GetReadArtifact(t, w, pr, b, s)
    \/ \E pr \in Proofs, s \in BOOLEAN : PostBatch(pr, s)
    \/ \E pr \in Proofs, s \in BOOLEAN : GetQuery(pr, s)
    \/ \E t \in Targets, xw \in WalletInputs, pr \in Proofs, s \in BOOLEAN :
          PostAgentEnrich(t, xw, pr, s)
    \/ \E t \in Targets, pr \in Proofs : PostEnrich(t, pr)
    \/ \E t \in Targets, st \in OrderStatuses, pr \in Proofs, s \in BOOLEAN :
          PostFulfill(t, st, pr, s)

SpecPaid == InitRoutes /\ [][NextPaid]_vars

\* The handler reached step name.
Took(name) == \E i \in 1..Len(trail) : trail[i] = name

\* C32: on every endpoint that requires payment, a proof supplied in
\* PAYMENT-SIGNATURE or in X-PAYMENT is passed to verification, the one in
\* PAYMENT-SIGNATURE when both are present.
C32_EitherHeaderVerified ==
    (Took("proof") /\ req.proof # NoProof) =>
        /\ Took("verify")
        /\ verified.header = ProofHeader(req.proof)

\* The price the free-quota endpoints ask once the quota is used up.
FreeQuotaPrice(endpoint, gen) ==
    IF endpoint = "curated" THEN CurrentHumanStandardPrice(gen) ELSE ReaderPrice

\* A step in which a free-quota endpoint answered a request.
FreeQuotaStep ==
    numRequests' # numRequests /\ req'.endpoint \in {"curated", "reader"}

\* The limiter admitted the request of this step.
AdmittedStep == quota' # quota

\* The limiter denied the request of this step and verify_x402_payment
\* returned valid=true for the current price.
PaidStep ==
    /\ quota' = quota
    /\ \E i \in 1..Len(trail') : trail'[i] = "limiter"
    /\ \E i \in 1..Len(trail') : trail'[i] = "verify"
    /\ req'.settled
    /\ verified'.amount = FreeQuotaPrice(req'.endpoint, genesis)

C34_LedgerAndLogAfterValid ==
    [][numRequests' # numRequests =>
          /\ \A j \in 1..Len(trail') :
                trail'[j] \in {"record", "log"} =>
                    /\ req'.settled
                    /\ \E i \in 1..(j - 1) : trail'[i] = "verify"
          /\ (ledger' # ledger \/ txlog' # txlog) =>
                (req'.settled /\ verified'.header # "")
          /\ ~req'.settled => (ledger' = ledger /\ txlog' = txlog)]_vars

\* A request whose payment was verified updated the wallet's ledger and the
\* transaction log.
C34_Witness ==
    /\ req.settled
    /\ req.x_wallet # ""
    /\ Took("record")
    /\ ledger[req.x_wallet].exists
    /\ Len(txlog) = 2

\* The handler did what the endpoint sells: it created an enrichment job,
\* started the fulfilment of an order, or returned the data of an endpoint that
\* always asks for payment.
PaidWork ==
    \/ Took("job")
    \/ Took("fulfil")
    \/ req.endpoint \in {"oracle", "batch", "query"} /\ Took("serve")

\* C38: no endpoint that demands an x402 payment does its paid work for a
\* request unless verify_x402_payment returned valid=true for that request's
\* header; a payment header that is merely there is never enough.
C38_PaidWorkOnlyAfterValid ==
    PaidWork => (Took("verify") /\ req.settled /\ verified.header # "")

\* ------------------------------------------------------------------------
\* More properties of the volume ledger
\* ------------------------------------------------------------------------
\* C35: the enterprise_outreach flag a record_purchase returns after its
\* write is true exactly when the spend it summed over the rolling window
\* exceeds 200 USD, and false when the spend is 200 USD or less.
C35_OutreachOnlyAboveThreshold ==
    [][\A p \in Procs :
          RecordSet(p) =>
              LET o == PurchaseWrite(rsnap[p], rnow[p], rpur[p]) IN
              rlast'.tier.enterprise_outreach
                  <=> (o.total_spend > EnterpriseOutreachThresholdUsd)]_vars

\* A step in which a get_tier call returned.
GetTierStep == rlast'.op = "get_tier" /\ rlast' # rlast

\* C36: get_tier is read-only: it appends no event and leaves the stored
\* ledger document of every wallet as it was, for known and unknown wallets.
C36_GetTierReadOnly ==
    [][GetTierStep => ledger' = ledger]_vars

\* get_tier returned the discount tier of a wallet whose document holds
\* events.
C36_Witness ==
    /\ rlast.op = "get_tier"
    /\ rlast.cause = "found"
    /\ rlast.tier.label = "Volume"
    /\ Len(ledger[rlast.wallet].events) = 2

\* C37: get_tier returns the tier of the wallet's purchases inside the 30
\* days before the call: once all events of the wallet are older than that,
\* it returns the standard tier.
C37_GetTierOfTrailingWindow ==
    [][(GetTierStep /\ rlast'.cause = "found") =>
          rlast'.tier.label
              = ExpectedLabel(SumRecords(PruneEvents(ledger[rlast'.wallet].events, vnow)))]_vars

\* ========================================================================
\* Concurrent fulfill requests for one delivery order (routes/deliver.py)
\* ========================================================================
MaxFulfills == 3

\* The variables of the other handlers.
OtherRouteVars == <<req, trail, resp, quota, reqRecords, verified, txlog, numRequests>>

\* deliver.py:240-258  a fulfill request arrives with its payment headers and
\* is taken by the first free handler.
FulfillCall(p, proof) ==
    /\ fpc[p] = "idle"
    /\ \A q \in Procs : q < p => fpc[q] # "idle"
    /\ numFulfills < MaxFulfills
    /\ numFulfills' = numFulfills + 1
    /\ fhdr' = [fhdr EXCEPT ![p] = ProofHeader(proof)]
    /\ fpc' = [fpc EXCEPT ![p] = "load"]
    /\ UNCHANGED <<order, fsnap, spent, settlements, fulfilments, bgRunning>>
    /\ UNCHANGED <<limiterVars, verifyVars, volumeVars, OtherRouteVars>>

\* deliver.py:260-285  the order is loaded; a fulfilled order is answered with
\* its downloads, any other status than awaiting_payment with a 400, a request
\* without payment header with a 402; otherwise the payment goes to
\* verify_x402_payment.
FulfillLoad(p) ==
    /\ fpc[p] = "load"
    /\ fsnap' = [fsnap EXCEPT ![p] = order]
    /\ fpc' = [fpc EXCEPT ![p] =
                  IF order.status = "awaiting_payment" /\ fhdr[p] # ""
                  THEN "verify" ELSE "idle"]
    /\ UNCHANGED <<order, fhdr, spent, settlements, fulfilments, bgRunning, numFulfills>>
    /\ UNCHANGED <<limiterVars, verifyVars, volumeVars, OtherRouteVars>>

\* deliver.py:287-292  verify_x402_payment returns: valid after the
\* facilitator settled the payment (a proof is settled once only), or not
\* valid, which ends the request with a 402.
FulfillVerify(p, valid) ==
    /\ fpc[p] = "verify"
    /\ valid => fhdr[p] \notin spent
    /\ spent' = IF valid THEN spent \cup {fhdr[p]} ELSE spent
    /\ settlements' = IF valid THEN settlements + 1 ELSE settlements
    /\ fpc' = [fpc EXCEPT ![p] = IF valid THEN "update" ELSE "idle"]
    /\ UNCHANGED <<order, fhdr, fsnap, fulfilments, bgRunning, numFulfills>>
    /\ UNCHANGED <<limiterVars, verifyVars, volumeVars, OtherRouteVars>>

\* deliver.py:294-310  the order is marked as processing and the background
\* fulfilment is started.
FulfillUpdate(p) ==
    /\ fpc[p] = "update"
    /\ order' = [order EXCEPT !.status = "processing"]
    /\ fulfilments' = fulfilments + 1
    /\ bgRunning' = bgRunning + 1
    /\ fpc' = [fpc EXCEPT ![p] = "idle"]
    /\ UNCHANGED <<fhdr, fsnap, spent, settlements, numFulfills>>
    /\ UNCHANGED <<limiterVars, verifyVars, volumeVars, OtherRouteVars>>

\* deliver.py:358-409  _fulfill_order_background ends: fulfilled if an
\* artifact was processed, failed otherwise or on an exception.
BackgroundEnd(status) ==
    /\ bgRunning > 0
    /\ bgRunning' = bgRunning - 1
    /\ order' = [order EXCEPT !.status = status]
    /\ UNCHANGED <<fpc, fhdr, fsnap, spent, settlements, fulfilments, numFulfills>>
    /\ UNCHANGED <<limiterVars, verifyVars, volumeVars, OtherRouteVars>>

NextDeliver ==
    \/ \E p \in Procs, pr \in Proofs : FulfillCall(p, pr)
    \/ \E p \in Procs : FulfillLoad(p)
    \/ \E p \in Procs, v \in BOOLEAN : FulfillVerify(p, v)
    \/ \E p \in Procs : FulfillUpdate(p)
    \/ \E st \in {"fulfilled", "failed"} : BackgroundEnd(st)

SpecDeliver == InitL /\ [][NextDeliver]_vars

\* How far an order has come.
StatusRank(status) ==
    IF status = "awaiting_payment" THEN 0 ELSE IF status = "processing" THEN 1 ELSE 2

\* C39: for one delivery order, under any interleaving of concurrent fulfill
\* requests, at most one payment is settled and at most one background
\* fulfilment is started, and the status only moves forward: it never returns
\* from fulfilled or failed to processing.
C39_OneSettlementOneFulfilment ==
    [][/\ settlements' <= 1
       /\ fulfilments' <= 1
       /\ StatusRank(order'.status) >= StatusRank(order.status)]_vars
====
